---- MODULE Spec2Model ----
(***************************************************************************)
(* Discrete-event simulation kernel of ch0164/cs581: the Event ordering    *)
(* (events.py), the array-backed binary min-heap (min_heap.py) and the     *)
(* Future Event List built on it (future_event_list.py).                   *)
(*                                                                         *)
(* Python lists are 0-based; TLA+ sequences are 1-based.  At and Put       *)
(* address a sequence with the 0-based index the source uses, so that the  *)
(* index arithmetic of the source is kept unchanged.                       *)
(***************************************************************************)
EXTENDS Integers, Sequences, FiniteSets, TLC

\* ------------------------------------------------------------------ bounds
\* Largest event time an insert or delete may carry (times are 1..MaxTime).
MaxTime == 2
\* Largest number of insert_with_priority calls between two clear() calls.
MaxInserts == 4
\* Largest number of trials a driver starts after the first one.
MaxTrials == 1
\* Largest number of events fed to each of two runs that are compared.
MaxPairInserts == 2
\* The time horizon of a run of airport_check_in (its argument end_time).
end_time == 1
\* The time horizon of a run of dump_truck_operation (its argument end_time,
\* with another default than that of airport_check_in).
truck_end_time == 3
\* The Departures a trial of grocery_checkout counts before it ends.
customer_limit == 1
\* The trucks of dump_truck_operation.
truck_count == 3
\* Largest interarrival or service time a driver draws (0..MaxDuration).
MaxDuration == 1
\* Largest loading, weighing or travel time of a dump truck (1..MaxVariate).
MaxVariate == 3

\* normal() returns a whole number -MaxSample..MaxSample, and a call of
\* truncated_normal draws at most MaxDraws samples.
MaxSample == 2
MaxDraws == 3

\* --------------------------------------------------------------- constants
ARRIVAL == "ARRIVAL"
DEPARTURE == "DEPARTURE"
END == "END"
ALQ == "ALQ"
EL == "EL"
EW == "EW"

\* The three Event subclasses of events.py.
Kinds == {ARRIVAL, DEPARTURE, END}

Times == 1..MaxTime

IDLE == "IDLE"
BUSY == "BUSY"

ALLOW_TRANSFERS == "ALLOW"
PROHIBIT_TRANSFERS == "PROHIBIT"
FIRST_CLASS == "FIRST_CLASS"

\* An entity tag of the drivers, and the tag of an event built without one.
ECONOMY_CLASS == "ECONOMY"
NoEntity == "NONE"

\* What a call raised: nothing, the IndexError of list.pop() on [], the
\* AttributeError of reading `.time` from None, or the ZeroDivisionError of
\* a mean over no events.
NoError == "NoError"
IndexError == "IndexError"
AttributeError == "AttributeError"
ZeroDivisionError == "ZeroDivisionError"
SystemExit == "SystemExit"

\* Python's None where an Event is expected (get_next on an empty FEL).
None == [time |-> -1, type |-> "NONE", id |-> -1, entity |-> NoEntity]

\* Event.__init__ and the subclass that sets type; an id of -1 is id=None.
Event(id, entity, time, type) ==
    [time |-> time, type |-> type, id |-> id, entity |-> entity]

\* ---------------------------------------------------------------- events.py
\* Mutant of Lt: the time test turned round (a max-heap order).
Lt_later_first(self, other) ==
    IF self.time = other.time
    THEN IF self.type = END THEN FALSE ELSE self.type = ARRIVAL
    ELSE self.time > other.time

\* Mutant of Lt: no tie-break at equal time.
Lt_time_only(self, other) == self.time < other.time

\* Mutant of Lt: the order of the docstring, Arrival, then Departure, then
\* End at equal time.
Lt_by_rank(self, other) ==
    IF self.time = other.time
    THEN \/ self.type = ARRIVAL /\ other.type # ARRIVAL
         \/ self.type = DEPARTURE /\ other.type = END
    ELSE self.time < other.time

\* Event.__lt__
Lt(self, other) ==
    IF self.time = other.time
    THEN IF self.type = END THEN FALSE ELSE self.type = ARRIVAL
    ELSE self.time < other.time

\* Mutant of Eq: full identity, the id compared too.
Eq_with_id(self, other) ==
    self.time = other.time /\ self.type = other.type /\ self.id = other.id

\* Event.__eq__
Eq(self, other) == self.time = other.time /\ self.type = other.type

\* -------------------------------------------------------------- min_heap.py
At(heap, index) == heap[index + 1]

Put(heap, index, item) == [heap EXCEPT ![index + 1] = item]

get_child_index(index) == 2 * index + 1

get_parent_index(index) == (index - 1) \div 2

\* Mutant of sift_up_loop: the element is put back where it was.
sift_up_loop_no_move(heap, start_index, current_index, current_element) ==
    Put(heap, current_index, current_element)

\* The while loop of sift_up and the final placement of current_element.
RECURSIVE sift_up_loop(_, _, _, _)
sift_up_loop(heap, start_index, current_index, current_element) ==
    IF current_index > start_index
       /\ Lt(current_element, At(heap, get_parent_index(current_index)))
    THEN sift_up_loop(
             Put(heap, current_index, At(heap, get_parent_index(current_index))),
             start_index, get_parent_index(current_index), current_element)
    ELSE Put(heap, current_index, current_element)

sift_up(heap, start_index, current_index) ==
    sift_up_loop(heap, start_index, current_index, At(heap, current_index))

\* Mutant of smaller_child: the right child is never looked at.
smaller_child_left(heap, child_index) == child_index

\* The child sift_down moves up: the right one iff it exists and is < the left.
smaller_child(heap, child_index) ==
    IF child_index + 1 < Len(heap)
       /\ Lt(At(heap, child_index + 1), At(heap, child_index))
    THEN child_index + 1
    ELSE child_index

\* The while loop of sift_down: moves the hole from current_index to a leaf;
\* returns the array and the index of the hole.
RECURSIVE sift_down_loop(_, _)
sift_down_loop(heap, current_index) ==
    IF get_child_index(current_index) < Len(heap)
    THEN LET child_index == smaller_child(heap, get_child_index(current_index))
         IN  sift_down_loop(Put(heap, current_index, At(heap, child_index)),
                            child_index)
    ELSE [heap |-> heap, index |-> current_index]

\* Mutant of sift_down: the element taken out is not put back at the leaf.
sift_down_no_place(heap, start_index) == sift_down_loop(heap, start_index).heap

sift_down(heap, start_index) ==
    LET new_element == At(heap, start_index)
        moved == sift_down_loop(heap, start_index)
    IN  sift_up(Put(moved.heap, moved.index, new_element), start_index, moved.index)

heappush(heap, item) == sift_up(Append(heap, item), 0, Len(heap))

\* Mutant of heappop: the minimum is returned but nothing is removed.
heappop_keeps_last(heap) ==
    IF heap = << >>
    THEN [heap |-> heap, item |-> None, raised |-> IndexError]
    ELSE [heap |-> heap, item |-> heap[1], raised |-> NoError]

\* Mutant of heappop: an empty heap gives None instead of an error.
heappop_none_on_empty(heap) ==
    IF heap = << >>
    THEN [heap |-> heap, item |-> None, raised |-> NoError]
    ELSE LET end_element == heap[Len(heap)]
             rest == SubSeq(heap, 1, Len(heap) - 1)
         IN  IF rest # << >>
             THEN [heap |-> sift_down(Put(rest, 0, end_element), 0),
                   item |-> rest[1], raised |-> NoError]
             ELSE [heap |-> rest, item |-> end_element, raised |-> NoError]

\* Mutant of heappop: the last element is returned, not the root.
heappop_returns_last(heap) ==
    IF heap = << >>
    THEN [heap |-> heap, item |-> None, raised |-> IndexError]
    ELSE LET end_element == heap[Len(heap)]
             rest == SubSeq(heap, 1, Len(heap) - 1)
         IN  IF rest # << >>
             THEN [heap |-> sift_down(Put(rest, 0, end_element), 0),
                   item |-> end_element, raised |-> NoError]
             ELSE [heap |-> rest, item |-> end_element, raised |-> NoError]

\* heappop: the array left behind, the value returned and what was raised.
\* `heap.pop()` comes first: on [] it raises IndexError, nothing is returned
\* and the list stays as it was.
heappop(heap) ==
    IF heap = << >>
    THEN [heap |-> heap, item |-> None, raised |-> IndexError]
    ELSE LET end_element == heap[Len(heap)]
             rest == SubSeq(heap, 1, Len(heap) - 1)
         IN  IF rest # << >>
             THEN [heap |-> sift_down(Put(rest, 0, end_element), 0),
                   item |-> rest[1], raised |-> NoError]
             ELSE [heap |-> rest, item |-> end_element, raised |-> NoError]

\* Mutant of heapify_from: only the first node it is called on is sifted.
heapify_from_once(seq, index) ==
    IF index < 0 THEN seq ELSE sift_down(seq, index)

RECURSIVE heapify_from(_, _)
heapify_from(seq, index) ==
    IF index < 0 THEN seq ELSE heapify_from(sift_down(seq, index), index - 1)

\* Mutant of heapify: the array is left as the filter produced it.
heapify_skipped(seq) == seq

heapify(seq) == heapify_from(seq, Len(seq) \div 2 - 1)

\* The built-in sorted() of CPython on a list shorter than 64: count_run
\* finds the run the list starts with (non-descending, or strictly
\* descending and then reversed), binarysort inserts the rest one by one.
\* Every comparison is `x < y`, that is Lt(x, y).
RECURSIVE run_end(_, _, _)
run_end(seq, index, descending) ==
    IF index < Len(seq) /\ (Lt(At(seq, index), At(seq, index - 1)) <=> descending)
    THEN run_end(seq, index + 1, descending)
    ELSE index

\* The length of the run at the head of seq (Len(seq) >= 2) and its direction.
count_run(seq) ==
    LET descending == Lt(At(seq, 1), At(seq, 0))
    IN  [n |-> run_end(seq, 2, descending), descending |-> descending]

reverse_slice(seq, n) ==
    [i \in 1..Len(seq) |-> IF i <= n THEN seq[n + 1 - i] ELSE seq[i]]

\* The do-while of binarysort: where pivot goes within seq[l..r-1].
RECURSIVE bisect(_, _, _, _)
bisect(seq, pivot, l, r) ==
    IF l < r
    THEN LET p == l + (r - l) \div 2
         IN  IF Lt(pivot, At(seq, p))
             THEN bisect(seq, pivot, l, p)
             ELSE bisect(seq, pivot, p + 1, r)
    ELSE l

RECURSIVE binarysort(_, _)
binarysort(seq, start) ==
    IF start >= Len(seq) THEN seq
    ELSE LET pivot == At(seq, start)
             l == bisect(seq, pivot, 0, start)
         IN  binarysort(
                 [i \in 1..Len(seq) |->
                     IF i - 1 < l \/ i - 1 > start THEN seq[i]
                     ELSE IF i - 1 = l THEN pivot ELSE seq[i - 1]],
                 start + 1)

sorted(seq) ==
    IF Len(seq) < 2 THEN seq
    ELSE LET run == count_run(seq)
         IN  binarysort(IF run.descending THEN reverse_slice(seq, run.n) ELSE seq,
                        run.n)

\* Mutant of nsmallest: the heap array is taken to be sorted already.
nsmallest_unsorted(n, heap) ==
    SubSeq(heap, 1, IF n < Len(heap) THEN n ELSE Len(heap))

\* `sorted(heap)[:n]`
nsmallest(n, heap) ==
    SubSeq(sorted(heap), 1, IF n < Len(heap) THEN n ELSE Len(heap))

\* ------------------------------------------------------ future_event_list.py
VARIABLES
    fel,      \* the module-level list fel
    lastOp,   \* the FEL function called last
    arg,      \* the Event passed to it (None if it takes none)
    ret,      \* the Event it returned (None if it returned none)
    raised,   \* the exception it raised (NoError if it returned)
    prevLen,  \* length() before that call
    nIns,     \* insert_with_priority calls since the last clear()
    nPop,     \* get_next calls that returned an event since the last clear()
    deleted,  \* TRUE iff delete was called since the last clear()
    popped,   \* the events get_next returned since the last clear(), in order
    fresh,    \* TRUE iff every event inserted since the last clear() had a
              \* time >= the time of the event popped last before it
    phase,    \* "fill": inserts only since the last clear(); "drain": inserts,
              \* then get_next calls only; "mixed": anything else
    todoIns,  \* test_03: the events still to insert
    todoDel,  \* test_03: the delete calls still to make
    dump,     \* the events the last call logged, in order (<< >> if none)
    trial,    \* the trial a driver is in: the clear() calls it has made
    fel2,     \* the list of a second run, fed the same events in another order
    ev,       \* three Events handed to the comparison (<< >> if none)
    cmp,      \* cmp[i][j]: what ev[i] < ev[j] returned (<< >> before the calls)
    pc,       \* where airport_check_in is: "Start", "Loop", "Terminated" (it
              \* returned) or "Crashed" (it raised)
    clock,
    previous_event,
    states,          \* states[flight_class]: server_status and queue
    statistics,      \* statistics[flight_class]: the counters the loop keeps
    transfer_count,
    uuid,
    allow_transfers,
    positive, \* TRUE iff every duration drawn in this run so far was > 0
    driver,   \* the driver whose main() the process runs (NoDriver if none)
    server,   \* grocery_checkout: IDLE or BUSY
    queue,    \* grocery_checkout: the (id, time) pairs waiting;
              \* dump_truck_operation: queue["L"] and queue["W"]
    state,    \* dump_truck_operation: clock, LQ, L, WQ, W and Travel
    inserted, \* the events the last iteration of a driver inserted, in order
    ret2,     \* what the pop of the second list returned (None if none)
    tn,       \* a call of truncated_normal: a, b, the sample x, the samples
              \* drawn and whether it returned (NoCall if none)
    intruder  \* the event a caller other than the driver has put into the
              \* FEL during the trial (None if none)

\* What the callers of SpecRun record about a run; the other callers leave
\* it alone.
hist == <<popped, fresh, phase>>

\* The script of test_03.
script == <<todoIns, todoDel>>

\* What only the programs further down use; the FEL tests leave it alone.
moreVars == <<driver, server, queue, state, inserted, ret2, tn, intruder>>

driverVars == <<pc, clock, previous_event, states, statistics, transfer_count,
                uuid, allow_transfers, positive, moreVars>>

others == <<trial, fel2, ev, cmp, driverVars>>

\* The list of the FEL and what is recorded about the calls made on it.
felVars == <<fel, lastOp, arg, ret, raised, prevLen, nIns, nPop, deleted>>

vars == <<fel, lastOp, arg, ret, raised, prevLen, nIns, nPop, deleted,
          popped, fresh, phase, todoIns, todoDel, dump, trial, fel2, ev, cmp,
          pc, clock, previous_event, states, statistics, transfer_count,
          uuid, allow_transfers, positive,
          driver, server, queue, state, inserted, ret2, tn, intruder>>

\* `fel = []` at import, and the callers' records of a fresh run.
InitFel ==
    /\ fel = << >>
    /\ lastOp = "clear"
    /\ arg = None
    /\ ret = None
    /\ raised = NoError
    /\ prevLen = 0
    /\ nIns = 0
    /\ nPop = 0
    /\ deleted = FALSE
    /\ popped = << >>
    /\ fresh = TRUE
    /\ phase = "fill"

\* Nothing logged, no trial begun, no second run.
InitOthers ==
    /\ dump = << >>
    /\ trial = 0
    /\ fel2 = << >>

FlightClasses == {FIRST_CLASS, ECONOMY_CLASS}

\* The module at import (uuid = -1) and airport_check_in not yet called.
InitDriver ==
    /\ pc = "Start"
    /\ clock = 0
    /\ previous_event = None
    /\ states = [flight_class \in FlightClasses |->
                    [queue |-> << >>, server_status |-> IDLE]]
    /\ statistics = [flight_class \in FlightClasses |->
                        [arrival_count |-> 0,
                         departure_count |-> 0,
                         cumulative_time_busy |-> 0,
                         current_queue_length |-> 0,
                         maximum_queue_length |-> 0,
                         service_started_count |-> 0]]
    /\ transfer_count = 0
    /\ uuid = -1
    /\ allow_transfers = FALSE
    /\ positive = TRUE

NoDriver == "NONE"

\* truncated_normal not called.
NoCall == [a |-> 0, b |-> 0, x |-> 0, samples |-> 0, pc |-> "NONE"]

\* No second pop, no generator called, no other caller, and the locals of
\* the other drivers before their first call.
InitMore ==
    /\ server = IDLE
    /\ queue = << >>
    /\ state = << >>
    /\ inserted = << >>
    /\ ret2 = None
    /\ tn = NoCall
    /\ intruder = None

\* No Event handed to the comparison.
InitNoEvents ==
    /\ ev = << >>
    /\ cmp = << >>

Init ==
    /\ InitFel
    /\ todoIns = {}
    /\ todoDel = {}
    /\ InitOthers
    /\ InitNoEvents
    /\ InitDriver
    /\ InitMore
    /\ driver = NoDriver

insert_with_priority(event) ==
    /\ fel' = heappush(fel, event)
    /\ lastOp' = "insert_with_priority"
    /\ arg' = event
    /\ ret' = None
    /\ raised' = NoError
    /\ prevLen' = Len(fel)
    /\ nIns' = nIns + 1
    /\ UNCHANGED <<nPop, deleted>>

\* Mutant of get_next: heappop is called whether the list is empty or not.
get_next_unguarded ==
    /\ \E pop \in {heappop(fel)} :
           /\ fel' = pop.heap
           /\ ret' = pop.item
           /\ raised' = pop.raised
           /\ nPop' = IF pop.raised = NoError THEN nPop + 1 ELSE nPop
    /\ lastOp' = "get_next"
    /\ arg' = None
    /\ prevLen' = Len(fel)
    /\ UNCHANGED <<nIns, deleted>>

\* `if fel: return hq.heappop(fel)`, else the implicit `return None`.
get_next ==
    /\ IF fel # << >>
       THEN \E pop \in {heappop(fel)} :
                /\ fel' = pop.heap
                /\ ret' = pop.item
                /\ raised' = pop.raised
                /\ nPop' = IF pop.raised = NoError THEN nPop + 1 ELSE nPop
       ELSE /\ ret' = None
            /\ raised' = NoError
            /\ UNCHANGED <<fel, nPop>>
    /\ lastOp' = "get_next"
    /\ arg' = None
    /\ prevLen' = Len(fel)
    /\ UNCHANGED <<nIns, deleted>>

\* Mutant of delete: only the first match, in array order, is removed.
delete_first_match(event) ==
    /\ IF fel = << >>
       THEN fel' = fel
       ELSE fel' = heapify(
                [i \in 1..(Len(fel) - (IF \E j \in DOMAIN fel : Eq(fel[j], event)
                                       THEN 1 ELSE 0)) |->
                    IF \E j \in 1..i : Eq(fel[j], event) THEN fel[i + 1] ELSE fel[i]])
    /\ lastOp' = "delete"
    /\ arg' = event
    /\ ret' = None
    /\ raised' = NoError
    /\ prevLen' = Len(fel)
    /\ deleted' = TRUE
    /\ UNCHANGED <<nIns, nPop>>

delete(event) ==
    /\ IF fel = << >>
       THEN fel' = fel
       ELSE fel' = heapify(SelectSeq(fel, LAMBDA e : ~Eq(e, event)))
    /\ lastOp' = "delete"
    /\ arg' = event
    /\ ret' = None
    /\ raised' = NoError
    /\ prevLen' = Len(fel)
    /\ deleted' = TRUE
    /\ UNCHANGED <<nIns, nPop>>

\* Mutant of clear: without `global fel` the assignment binds a local name.
clear_local ==
    /\ fel' = fel
    /\ lastOp' = "clear"
    /\ arg' = None
    /\ ret' = None
    /\ raised' = NoError
    /\ prevLen' = Len(fel)
    /\ nIns' = 0
    /\ nPop' = 0
    /\ deleted' = FALSE

clear ==
    /\ fel' = << >>
    /\ lastOp' = "clear"
    /\ arg' = None
    /\ ret' = None
    /\ raised' = NoError
    /\ prevLen' = Len(fel)
    /\ nIns' = 0
    /\ nPop' = 0
    /\ deleted' = FALSE

length == Len(fel)

\* Mutant of peek: the entry at the end of the array instead of the root.
peek_last ==
    /\ ret' = IF fel = << >> THEN None ELSE At(fel, Len(fel) - 1)
    /\ lastOp' = "peek"
    /\ arg' = None
    /\ raised' = NoError
    /\ prevLen' = Len(fel)
    /\ UNCHANGED <<fel, nIns, nPop, deleted>>

peek ==
    /\ ret' = IF fel = << >> THEN None ELSE At(fel, 0)
    /\ lastOp' = "peek"
    /\ arg' = None
    /\ raised' = NoError
    /\ prevLen' = Len(fel)
    /\ UNCHANGED <<fel, nIns, nPop, deleted>>

\* The loop of print_fel: every event of nsmallest goes to the logger.
print_fel ==
    /\ dump' = nsmallest(Len(fel), fel)
    /\ lastOp' = "print_fel"
    /\ arg' = None
    /\ ret' = None
    /\ raised' = NoError
    /\ prevLen' = Len(fel)
    /\ UNCHANGED <<fel, nIns, nPop, deleted>>

\* Any sequence of FEL calls, at most MaxInserts inserts between two clears.
\* The caller inserts events with id 0 and an entity tag, and probes delete
\* with events built from a time alone (no id, no tag), as test_03 does.
Next ==
    \/ \E t \in Times, k \in Kinds :
           /\ nIns < MaxInserts
           /\ insert_with_priority(Event(0, ECONOMY_CLASS, t, k))
           /\ UNCHANGED <<hist, script, dump, others>>
    \/ get_next /\ UNCHANGED <<hist, script, dump, others>>
    \/ \E t \in Times, k \in Kinds :
           delete(Event(-1, NoEntity, t, k)) /\ UNCHANGED <<hist, script, dump, others>>
    \/ clear /\ UNCHANGED <<hist, script, dump, others>>
    \/ peek /\ UNCHANGED <<hist, script, dump, others>>

Spec == Init /\ [][Next]_vars

\* The comparison on its own: any three Events, and `x < y` for every pair
\* of them, each one against itself included.
InitLt ==
    /\ InitFel
    /\ todoIns = {}
    /\ todoDel = {}
    /\ InitOthers
    /\ InitDriver
    /\ InitMore
    /\ driver = NoDriver
    /\ ev \in [1..3 -> {Event(0, ECONOMY_CLASS, t, k) : t \in Times, k \in Kinds}]
    /\ cmp = << >>

Compare ==
    /\ cmp = << >>
    /\ cmp' = [i \in 1..3 |-> [j \in 1..3 |-> Lt(ev[i], ev[j])]]
    /\ UNCHANGED <<ev, felVars, hist, script, dump, trial, fel2, driverVars>>

NextLt == Compare

SpecLt == InitLt /\ [][NextLt]_vars

\* A caller of the heap functions themselves on the list, without the guard
\* of get_next: at most MaxInserts pushes, and pops whatever the length.
HeapPush(item) ==
    /\ nIns < MaxInserts
    /\ fel' = heappush(fel, item)
    /\ lastOp' = "heappush"
    /\ arg' = item
    /\ ret' = None
    /\ raised' = NoError
    /\ prevLen' = Len(fel)
    /\ nIns' = nIns + 1
    /\ UNCHANGED <<nPop, deleted, hist, script, dump, others>>

HeapPop ==
    /\ \E pop \in {heappop(fel)} :
           /\ fel' = pop.heap
           /\ ret' = pop.item
           /\ raised' = pop.raised
           /\ nPop' = IF pop.raised = NoError THEN nPop + 1 ELSE nPop
    /\ lastOp' = "heappop"
    /\ arg' = None
    /\ prevLen' = Len(fel)
    /\ UNCHANGED <<nIns, deleted, hist, script, dump, others>>

NextHeap ==
    \/ \E t \in Times, k \in Kinds : HeapPush(Event(0, ECONOMY_CLASS, t, k))
    \/ HeapPop

SpecHeap == Init /\ [][NextHeap]_vars

\* A caller that runs trial after trial as the drivers do: clear() starts a
\* trial, and the events of a trial carry the number of the trial as their
\* id, so that an event can be told from those of the trials before.
outsideTrials == <<hist, script, dump, fel2, ev, cmp, driverVars>>

TrialInsert(time, type) ==
    /\ nIns < MaxInserts
    /\ insert_with_priority(Event(trial, ECONOMY_CLASS, time, type))
    /\ UNCHANGED <<trial, outsideTrials>>

TrialGetNext == get_next /\ UNCHANGED <<trial, outsideTrials>>

TrialPeek == peek /\ UNCHANGED <<trial, outsideTrials>>

TrialClear ==
    /\ trial < MaxTrials
    /\ clear
    /\ trial' = trial + 1
    /\ UNCHANGED outsideTrials

NextTrials ==
    \/ \E t \in Times, k \in Kinds : TrialInsert(t, k)
    \/ TrialGetNext
    \/ TrialPeek
    \/ TrialClear

SpecTrials == Init /\ [][NextTrials]_vars

\* Two runs side by side, each with a FEL of its own: the first run's is
\* fel, the second run's is fel2.  Each is fed events one by one, in any
\* order.
PairInsert(event) ==
    /\ Len(fel) < MaxPairInserts
    /\ insert_with_priority(event)
    /\ UNCHANGED <<fel2, hist, script, dump, trial, ev, cmp, driverVars>>

PairInsert2(event) ==
    /\ Len(fel2) < MaxPairInserts
    /\ fel2' = heappush(fel2, event)
    /\ UNCHANGED <<felVars, hist, script, dump, trial, ev, cmp, driverVars>>

NextPair ==
    \/ \E t \in Times, k \in Kinds : PairInsert(Event(0, ECONOMY_CLASS, t, k))
    \/ \E t \in Times, k \in Kinds : PairInsert2(Event(0, ECONOMY_CLASS, t, k))

SpecPair == Init /\ [][NextPair]_vars

\* ------------------------------------------------ test_future_event_list.py
\* test_01 / test_02: a caller that only inserts and pops, and records what
\* get_next returns.
RunInsert(event) ==
    /\ nIns < MaxInserts
    /\ insert_with_priority(event)
    /\ fresh' = (fresh /\ (popped = << >> \/ event.time >= popped[Len(popped)].time))
    /\ phase' = IF phase = "fill" THEN "fill" ELSE "mixed"
    /\ dump' = << >>
    /\ UNCHANGED <<popped, script, others>>

RunGetNext ==
    /\ get_next
    /\ popped' = IF ret' # None THEN Append(popped, ret') ELSE popped
    /\ phase' = IF phase = "mixed" THEN "mixed" ELSE "drain"
    /\ dump' = << >>
    /\ UNCHANGED <<fresh, script, others>>

RunClear ==
    /\ clear
    /\ popped' = << >>
    /\ fresh' = TRUE
    /\ phase' = "fill"
    /\ dump' = << >>
    /\ UNCHANGED <<script, others>>

\* print_fel(logger) wherever the tests call it; the logger gets the list.
RunPrintFel ==
    /\ print_fel
    /\ UNCHANGED <<hist, script, others>>

NextRun ==
    \/ \E t \in Times, k \in Kinds : RunInsert(Event(0, ECONOMY_CLASS, t, k))
    \/ RunGetNext
    \/ RunClear
    \/ RunPrintFel

SpecRun == Init /\ [][NextRun]_vars

\* test_03_hardcoded_insert_and_delete: the six inserts and the four deletes.
ScenarioInserts ==
    { Event(1, NoEntity, 10, DEPARTURE), Event(2, NoEntity, 20, ARRIVAL),
      Event(3, NoEntity, 30, DEPARTURE), Event(4, NoEntity, 40, ARRIVAL),
      Event(5, NoEntity, 30, ARRIVAL), Event(6, NoEntity, 20, ARRIVAL) }

ScenarioDeletes ==
    { Event(-1, NoEntity, 10, DEPARTURE), Event(-1, NoEntity, 30, DEPARTURE),
      Event(-1, NoEntity, 20, ARRIVAL), Event(-1, NoEntity, 40, DEPARTURE) }

\* The while loop of test_03 has ended: get_next returned None.
ScenarioDone == todoIns = {} /\ todoDel = {} /\ lastOp = "get_next" /\ ret = None

InitScenario ==
    /\ InitFel
    /\ todoIns = ScenarioInserts
    /\ todoDel = ScenarioDeletes
    /\ InitOthers
    /\ InitNoEvents
    /\ InitDriver
    /\ InitMore
    /\ driver = NoDriver

\* The inserts of the scenario, in any order.
ScenarioInsert ==
    \E event \in todoIns :
        /\ insert_with_priority(event)
        /\ todoIns' = todoIns \ {event}
        /\ UNCHANGED <<hist, todoDel, dump, others>>

\* After them the deletes, in any order.
ScenarioDelete ==
    /\ todoIns = {}
    /\ \E event \in todoDel :
           /\ delete(event)
           /\ todoDel' = todoDel \ {event}
           /\ UNCHANGED <<hist, todoIns, dump, others>>

\* After them `while event := fel.get_next()`.
ScenarioGetNext ==
    /\ todoIns = {} /\ todoDel = {}
    /\ ~ScenarioDone
    /\ get_next
    /\ popped' = IF ret' # None THEN Append(popped, ret') ELSE popped
    /\ UNCHANGED <<fresh, phase, script, dump, others>>

NextScenario == ScenarioInsert \/ ScenarioDelete \/ ScenarioGetNext

SpecScenario == InitScenario /\ [][NextScenario]_vars

\* `while event := fel.get_next(): observed.append(event)` from a given array.
RECURSIVE DrainSeq(_)
DrainSeq(heap) ==
    IF heap = << >> THEN << >>
    ELSE LET pop == heappop(heap)
         IN  <<pop.item>> \o DrainSeq(pop.heap)

\* ------------------------------------------------------- airport_check_in.py
\* What rvg.exponential and rvg.truncated_normal(a=0) may return, in whole
\* time units: no draw is negative, a draw may be 0.
Durations == 0..MaxDuration

\* The largest id a run can issue whose draws are all >= 1: the two seeds,
\* and one per Arrival popped at a time 0..end_time in each class.  A run
\* that has issued it and pops one more Arrival is not followed further.
MaxUuid == 2 * end_time + 3

outsideDriver == <<hist, script, dump, trial, fel2, ev, cmp>>

get_uuid == uuid + 1

\* What get_next() returns and leaves behind, from a given list.
next_event(list) ==
    IF list # << >> THEN heappop(list)
    ELSE [heap |-> list, item |-> None, raised |-> NoError]

\* Mutant of schedule_arrival: the interarrival time is not added.
schedule_arrival_at_clock(list, id, flight_class, clock_, interarrival_time_) ==
    heappush(list, Event(id, flight_class, clock_, ARRIVAL))

schedule_arrival(list, id, flight_class, clock_, interarrival_time_) ==
    heappush(list, Event(id, flight_class, clock_ + interarrival_time_, ARRIVAL))

\* Mutant of schedule_departure: no Departure is inserted.
schedule_departure_dropped(list, arrival_event_, flight_class, clock_, service_time_) ==
    list

schedule_departure(list, arrival_event_, flight_class, clock_, service_time_) ==
    heappush(list, Event(arrival_event_.id, flight_class,
                         clock_ + service_time_, DEPARTURE))

\* Lines 54-97: the state of a trial, and the seeding of the FEL.
Seed(scenario) ==
    /\ pc = "Start"
    /\ LET first_class_event == Event(0, FIRST_CLASS, 0, ARRIVAL)
           economy_class_event == Event(1, ECONOMY_CLASS, 0, ARRIVAL)
           end_event == Event(-1, NoEntity, end_time, END)
       IN  /\ fel' = heappush(heappush(heappush(<< >>, first_class_event),
                                       economy_class_event), end_event)
           /\ previous_event' = economy_class_event
           /\ arg' = end_event
    /\ uuid' = 1
    /\ clock' = 0
    /\ allow_transfers' = (scenario = ALLOW_TRANSFERS)
    /\ transfer_count' = 0
    /\ statistics' = [flight_class \in FlightClasses |->
                         [arrival_count |-> 0,
                          departure_count |-> 0,
                          cumulative_time_busy |-> 0,
                          current_queue_length |-> 0,
                          maximum_queue_length |-> 0,
                          service_started_count |-> 0]]
    /\ states' = [flight_class \in FlightClasses |->
                     [queue |-> << >>, server_status |-> IDLE]]
    /\ lastOp' = "insert_with_priority"
    /\ ret' = None
    /\ raised' = NoError
    /\ prevLen' = 2
    /\ nIns' = 3
    /\ nPop' = 0
    /\ deleted' = FALSE
    /\ positive' = TRUE
    /\ pc' = "Loop"
    /\ inserted' = <<Event(0, FIRST_CLASS, 0, ARRIVAL),
                      Event(1, ECONOMY_CLASS, 0, ARRIVAL),
                      Event(-1, NoEntity, end_time, END)>>
    /\ UNCHANGED <<outsideDriver, driver, server, queue, state, ret2, tn, intruder>>

\* Mutant of loop_condition: the loop runs for as long as the FEL holds events.
loop_condition_fel_nonempty == fel # << >>

\* `while previous_event.type is not END`
loop_condition == previous_event.type # END

\* Lines 144-148: the busy time added at every event.
time_busy_added(current_event) ==
    [flight_class \in FlightClasses |->
        IF states[FIRST_CLASS].server_status = BUSY
        THEN [statistics[flight_class] EXCEPT
                 !.cumulative_time_busy =
                     @ + (current_event.time - previous_event.time)]
        ELSE statistics[flight_class]]

\* Lines 154-185: what an Arrival leaves: the FEL, the states, the counters,
\* the events it inserted and the durations it drew.
handle_arrival(list, stats, current_event, service_time, interarrival_time) ==
    LET flight_class == current_event.entity
        clock_ == current_event.time
        busy == states[flight_class].server_status = BUSY
        departure == Event(current_event.id, flight_class,
                           clock_ + service_time, DEPARTURE)
        arrival == Event(get_uuid, flight_class,
                         clock_ + interarrival_time, ARRIVAL)
        queue_length == IF busy
                        THEN stats[flight_class].current_queue_length + 1
                        ELSE stats[flight_class].current_queue_length
        list1 == IF busy THEN list
                 ELSE schedule_departure(list, current_event, flight_class,
                                         clock_, service_time)
    IN  [fel |-> schedule_arrival(list1, get_uuid, flight_class, clock_,
                                  interarrival_time),
         states |->
             IF busy
             THEN [states EXCEPT ![flight_class].queue = Append(@, current_event)]
             ELSE [states EXCEPT ![flight_class].server_status = BUSY],
         statistics |->
             [stats EXCEPT ![flight_class] =
                 [@ EXCEPT !.current_queue_length = queue_length,
                           !.service_started_count = IF busy THEN @ ELSE @ + 1,
                           !.arrival_count = @ + 1,
                           !.maximum_queue_length =
                               IF @ > queue_length THEN @ ELSE queue_length]],
         transfer_count |-> transfer_count,
         uuid |-> get_uuid,
         inserted |-> IF busy THEN <<arrival>> ELSE <<departure, arrival>>,
         drawn |-> IF busy THEN {interarrival_time}
                   ELSE {service_time, interarrival_time}]

\* Lines 188-234: what a Departure leaves.
handle_departure(list, stats, current_event, service_time) ==
    LET flight_class == current_event.entity
        clock_ == current_event.time
        counted == [stats EXCEPT ![flight_class].departure_count = @ + 1]
    IN  IF states[flight_class].queue = << >>
        THEN IF /\ allow_transfers
                /\ flight_class = FIRST_CLASS
                /\ Len(states[ECONOMY_CLASS].queue) > 0
                /\ states[ECONOMY_CLASS].server_status = BUSY
             THEN LET economy_arrival_event == Head(states[ECONOMY_CLASS].queue)
                  IN  [fel |-> schedule_departure(list, economy_arrival_event,
                                                  FIRST_CLASS, clock_, service_time),
                       states |-> [states EXCEPT ![ECONOMY_CLASS].queue = Tail(@)],
                       statistics |->
                           [counted EXCEPT ![FIRST_CLASS].service_started_count = @ + 1],
                       transfer_count |-> transfer_count + 1,
                       uuid |-> uuid,
                       inserted |-> <<Event(economy_arrival_event.id, FIRST_CLASS,
                                            clock_ + service_time, DEPARTURE)>>,
                       drawn |-> {service_time}]
             ELSE [fel |-> list,
                   states |-> [states EXCEPT ![flight_class].server_status = IDLE],
                   statistics |-> counted,
                   transfer_count |-> transfer_count,
                   uuid |-> uuid,
                   inserted |-> << >>,
                   drawn |-> {}]
        ELSE LET arrival_event == Head(states[flight_class].queue)
             IN  [fel |-> schedule_departure(list, arrival_event, flight_class,
                                             clock_, service_time),
                  states |-> [states EXCEPT ![flight_class].queue = Tail(@)],
                  statistics |->
                      [counted EXCEPT ![flight_class] =
                          [@ EXCEPT !.current_queue_length = @ - 1,
                                    !.service_started_count = @ + 1]],
                  transfer_count |-> transfer_count,
                  uuid |-> uuid,
                  inserted |-> <<Event(arrival_event.id, flight_class,
                                       clock_ + service_time, DEPARTURE)>>,
                  drawn |-> {service_time}]

\* An event of another kind (End) has no branch: nothing but lines 141-151
\* and 237 happens.
handle_other(list, stats) ==
    [fel |-> list, states |-> states, statistics |-> stats,
     transfer_count |-> transfer_count, uuid |-> uuid,
     inserted |-> << >>, drawn |-> {}]

\* One iteration of the main loop, lines 140-237, with the durations the
\* generators return in it.  The FEL records are those of the FEL call the
\* iteration made last.
Iterate ==
    /\ pc = "Loop"
    /\ loop_condition
    /\ \E service_time \in Durations, interarrival_time \in Durations,
          pop \in {next_event(fel)} :
           IF pop.item = None
           THEN /\ pc' = "Crashed"
                /\ raised' = AttributeError
                /\ lastOp' = "get_next"
                /\ arg' = None
                /\ ret' = None
                /\ prevLen' = Len(fel)
                /\ UNCHANGED <<fel, nIns, nPop, clock, previous_event, states,
                               statistics, transfer_count, uuid, positive,
                               inserted>>
           ELSE /\ pop.item.type = ARRIVAL => uuid < MaxUuid
                /\ \E done \in {
                       IF pop.item.type = ARRIVAL
                       THEN handle_arrival(pop.heap, time_busy_added(pop.item),
                                           pop.item, service_time, interarrival_time)
                       ELSE IF pop.item.type = DEPARTURE
                       THEN handle_departure(pop.heap, time_busy_added(pop.item),
                                             pop.item, service_time)
                       ELSE handle_other(pop.heap, time_busy_added(pop.item))} :
                       /\ fel' = done.fel
                       /\ states' = done.states
                       /\ statistics' = done.statistics
                       /\ transfer_count' = done.transfer_count
                       /\ uuid' = done.uuid
                       /\ positive' = (positive /\ \A d \in done.drawn : d > 0)
                       /\ nIns' = nIns + Len(done.inserted)
                       /\ inserted' = done.inserted
                       /\ IF done.inserted = << >>
                          THEN /\ lastOp' = "get_next"
                               /\ arg' = None
                               /\ ret' = pop.item
                               /\ prevLen' = Len(fel)
                          ELSE /\ lastOp' = "insert_with_priority"
                               /\ arg' = done.inserted[Len(done.inserted)]
                               /\ ret' = None
                               /\ prevLen' = Len(done.fel) - 1
                /\ clock' = pop.item.time
                /\ previous_event' = pop.item
                /\ raised' = NoError
                /\ nPop' = nPop + 1
                /\ pc' = "Loop"
    /\ UNCHANGED <<deleted, allow_transfers, outsideDriver,
                   driver, server, queue, state, ret2, tn, intruder>>

\* The loop condition fails and the loop is left.  Lines 239-303 compute
\* the report from the counters: airport_check_in returns it, or raises
\* when a mean or a ratio of the report has a divisor of 0.
Finish ==
    /\ pc = "Loop"
    /\ ~loop_condition
    /\ pc' = "Terminated"
    /\ raised' = IF \/ clock = 0
                    \/ \E flight_class \in FlightClasses :
                           \/ statistics[flight_class].arrival_count = 0
                           \/ statistics[flight_class].departure_count = 0
                           \/ statistics[flight_class].service_started_count = 0
                 THEN ZeroDivisionError
                 ELSE NoError
    /\ UNCHANGED <<fel, lastOp, arg, ret, prevLen, nIns, nPop, deleted,
                   clock, previous_event, states, statistics,
                   transfer_count, uuid, allow_transfers, positive, outsideDriver,
                   moreVars>>

NextAirport ==
    \/ \E scenario \in {ALLOW_TRANSFERS, PROHIBIT_TRANSFERS} : Seed(scenario)
    \/ Iterate
    \/ Finish

SpecAirport == Init /\ [][NextAirport]_vars

\* What every step of Iterate does to pc and nPop, and no other step of
\* NextAirport does: the condition under which Iterate can be taken, and
\* the two counters after it.
IterateStep ==
    /\ pc = "Loop"
    /\ loop_condition
    /\ IF fel = << >>
       THEN pc' = "Crashed" /\ nPop' = nPop
       ELSE /\ At(fel, 0).type = ARRIVAL => uuid < MaxUuid
            /\ pc' = "Loop" /\ nPop' = nPop + 1

\* The interpreter keeps running the function: an iteration that can be
\* made is made, and so is the return.  The fairness of Iterate is written
\* on IterateStep, which is enabled exactly when Iterate is and is taken
\* exactly by the steps of Iterate.
SpecAirportFair ==
    SpecAirport /\ WF_<<pc, nPop>>(IterateStep) /\ WF_vars(Finish)

\* -------------------------------------------------------- grocery_checkout.py
\* What rvg.normal may return, in whole time units: a normal variate has no
\* lower bound.
NormalDurations == (0 - MaxDuration)..MaxDuration

\* The most Arrivals a trial whose interarrival times are all >= 1 can pop
\* before its customer_limit-th Departure.  A trial that has popped as many
\* and pops one more is not followed further.
MaxArrivals == customer_limit * MaxDuration + 2

\* Mutant of grocery_loop_condition: one Departure too many (<=).
grocery_loop_condition_inclusive == statistics.departure_count <= customer_limit

\* `while statistics["departure_count"] < customer_limit`
grocery_loop_condition == statistics.departure_count < customer_limit

\* Mutant of grocery_seed: the FEL is cleared and the first Arrival is not
\* inserted.
grocery_seed_without_insert(list, event) == << >>

\* Mutant of grocery_seed: the FEL is not cleared before the first insert.
grocery_seed_without_clear(list, event) == heappush(list, event)

\* Lines 68-69: fel.clear(), then the first Arrival goes in.
grocery_seed(list, event) == heappush(<< >>, event)

\* Lines 49-70: the locals of a trial, and the seeding of the FEL.  The
\* function does not assign the global uuid: get_uuid() goes on from the id
\* the process issued last.
GrocerySeed ==
    /\ driver = "grocery_checkout"
    /\ pc = "Start"
    /\ LET event == Event(get_uuid, NoEntity, 0, ARRIVAL)
       IN  /\ fel' = grocery_seed(fel, event)
           /\ previous_event' = event
           /\ arg' = event
           /\ inserted' = <<event>>
    /\ uuid' = get_uuid
    /\ clock' = 0
    /\ server' = IDLE
    /\ queue' = << >>
    /\ statistics' = [arrival_count |-> 0,
                      departure_count |-> 0,
                      cumulative_time_busy |-> 0,
                      current_queue_length |-> 0,
                      maximum_queue_length |-> 0,
                      service_started_count |-> 0]
    /\ lastOp' = "insert_with_priority"
    /\ ret' = None
    /\ raised' = NoError
    /\ prevLen' = Len(fel') - 1
    /\ nIns' = 1
    /\ nPop' = 0
    /\ deleted' = FALSE
    /\ positive' = TRUE
    /\ pc' = "Loop"
    /\ UNCHANGED <<states, transfer_count, allow_transfers, state, ret2, tn,
                   intruder, driver, outsideDriver>>

\* Lines 83-117: what an Arrival leaves: the FEL, the server, the queue, the
\* counters, the events it inserted and the durations it drew.
grocery_arrival(list, stats, current_event, service_time, interarrival_time) ==
    LET clock_ == current_event.time
        busy == server = BUSY
        departure == Event(current_event.id, NoEntity, clock_ + service_time,
                           DEPARTURE)
        arrival == Event(get_uuid, NoEntity, clock_ + interarrival_time, ARRIVAL)
        queue_length == IF busy THEN stats.current_queue_length + 1
                        ELSE stats.current_queue_length
        list1 == IF busy THEN list ELSE heappush(list, departure)
    IN  [fel |-> heappush(list1, arrival),
         server |-> BUSY,
         queue |-> IF busy
                   THEN Append(queue, <<current_event.id, current_event.time>>)
                   ELSE queue,
         statistics |->
             [stats EXCEPT !.current_queue_length = queue_length,
                           !.service_started_count = IF busy THEN @ ELSE @ + 1,
                           !.arrival_count = @ + 1,
                           !.maximum_queue_length =
                               IF @ > queue_length THEN @ ELSE queue_length],
         uuid |-> get_uuid,
         inserted |-> IF busy THEN <<arrival>> ELSE <<departure, arrival>>,
         drawn |-> IF busy THEN {interarrival_time}
                   ELSE {service_time, interarrival_time}]

\* Lines 120-146: what a Departure leaves.  The Departure is counted (line
\* 127) before the Departure of the next customer in line, the one appended
\* last, is inserted (line 141).
grocery_departure(list, stats, current_event, service_time) ==
    LET clock_ == current_event.time
        counted == [stats EXCEPT !.departure_count = @ + 1]
    IN  IF stats.current_queue_length <= 0
        THEN [fel |-> list, server |-> IDLE, queue |-> queue,
              statistics |-> counted, uuid |-> uuid,
              inserted |-> << >>, drawn |-> {}]
        ELSE LET next == queue[Len(queue)]
                 event == Event(next[1], NoEntity, clock_ + service_time,
                                DEPARTURE)
             IN  [fel |-> heappush(list, event),
                  server |-> server,
                  queue |-> SubSeq(queue, 1, Len(queue) - 1),
                  statistics |->
                      [counted EXCEPT !.current_queue_length = @ - 1,
                                      !.service_started_count = @ + 1],
                  uuid |-> uuid,
                  inserted |-> <<event>>,
                  drawn |-> {service_time}]

\* An event of another kind has no branch: nothing but lines 74-80 and 149
\* happens.
grocery_other(list, stats) ==
    [fel |-> list, server |-> server, queue |-> queue, statistics |-> stats,
     uuid |-> uuid, inserted |-> << >>, drawn |-> {}]

\* Lines 83 and 120: the branch of the if / elif chain an event takes
\* ("fallthrough": neither, and the iteration goes on to line 149).
grocery_dispatch(current_event) ==
    IF current_event.type = ARRIVAL THEN "arrival"
    ELSE IF current_event.type = DEPARTURE THEN "departure"
    ELSE "fallthrough"

\* Lines 78-80: the busy time added at every event.
grocery_time_busy_added(current_event) ==
    IF server = BUSY
    THEN [statistics EXCEPT !.cumulative_time_busy =
              @ + (current_event.time - previous_event.time)]
    ELSE statistics

\* One iteration of the main loop, lines 73-149, with the durations the
\* generators return in it: truncated_normal(a=0) for a customer served on
\* arrival, normal for one taken from the queue.
GroceryIterate ==
    /\ driver = "grocery_checkout"
    /\ pc = "Loop"
    /\ grocery_loop_condition
    /\ \E pop \in {next_event(fel)} :
           IF pop.item = None
           THEN /\ pc' = "Crashed"
                /\ raised' = AttributeError
                /\ lastOp' = "get_next"
                /\ arg' = None
                /\ ret' = None
                /\ prevLen' = Len(fel)
                /\ UNCHANGED <<fel, nIns, nPop, clock, previous_event, server,
                               queue, statistics, uuid, positive, inserted>>
           ELSE /\ pop.item.type = ARRIVAL =>
                       statistics.arrival_count < MaxArrivals
                /\ \E done \in
                       CASE grocery_dispatch(pop.item) = "arrival" ->
                                { grocery_arrival(pop.heap,
                                                  grocery_time_busy_added(pop.item),
                                                  pop.item, service_time,
                                                  interarrival_time) :
                                      service_time \in Durations,
                                      interarrival_time \in Durations }
                         [] grocery_dispatch(pop.item) = "departure" ->
                                { grocery_departure(pop.heap,
                                                    grocery_time_busy_added(pop.item),
                                                    pop.item, service_time) :
                                      service_time \in NormalDurations }
                         [] OTHER ->
                                { grocery_other(pop.heap,
                                                grocery_time_busy_added(pop.item)) } :
                       /\ fel' = done.fel
                       /\ server' = done.server
                       /\ queue' = done.queue
                       /\ statistics' = done.statistics
                       /\ uuid' = done.uuid
                       /\ positive' = (positive /\ \A d \in done.drawn : d > 0)
                       /\ nIns' = nIns + Len(done.inserted)
                       /\ inserted' = done.inserted
                       /\ IF done.inserted = << >>
                          THEN /\ lastOp' = "get_next"
                               /\ arg' = None
                               /\ ret' = pop.item
                               /\ prevLen' = Len(fel)
                          ELSE /\ lastOp' = "insert_with_priority"
                               /\ arg' = done.inserted[Len(done.inserted)]
                               /\ ret' = None
                               /\ prevLen' = Len(done.fel) - 1
                /\ clock' = pop.item.time
                /\ previous_event' = pop.item
                /\ raised' = NoError
                /\ nPop' = nPop + 1
                /\ pc' = "Loop"
    /\ UNCHANGED <<deleted, states, transfer_count, allow_transfers, state,
                   ret2, tn, intruder, driver, outsideDriver>>

\* The loop condition fails and the loop is left.  Lines 152-177 compute
\* the report: grocery_checkout returns it, or raises when the clock, the
\* divisor of the server utilization, is 0.
GroceryFinish ==
    /\ driver = "grocery_checkout"
    /\ pc = "Loop"
    /\ ~grocery_loop_condition
    /\ pc' = "Terminated"
    /\ raised' = IF \/ clock = 0
                    \/ statistics.departure_count = 0
                    \/ statistics.arrival_count = 0
                    \/ statistics.service_started_count = 0
                 THEN ZeroDivisionError
                 ELSE NoError
    /\ UNCHANGED <<fel, lastOp, arg, ret, prevLen, nIns, nPop, deleted,
                   clock, previous_event, states, statistics,
                   transfer_count, uuid, allow_transfers, positive, outsideDriver,
                   moreVars>>

\* --------------------------------------------------- dump_truck_operation.py
\* The events of the dump truck model: ArrivalLoadingQueue, EndLoading and
\* EndWeighing are Events whose type is ALQ, EL and EW.
ArrivalLoadingQueue(id, time) == Event(id, NoEntity, time, ALQ)

EndLoading(id, time) == Event(id, NoEntity, time, EL)

EndWeighing(id, time) == Event(id, NoEntity, time, EW)

\* What rvg.empirical(variates, probabilities) may return: one of the
\* variates.  The tables of main() hold durations > 0 only (lines 290-294).
empirical == 1..MaxVariate

\* `state["L"] < 2`: the two loaders.
Loaders == 2

\* Lines 150-152: truck index + 1 arrives at time index, and End(end_time).
RECURSIVE truck_inserts(_, _)
truck_inserts(list, index) ==
    IF index = truck_count
    THEN heappush(list, Event(-1, NoEntity, truck_end_time, END))
    ELSE truck_inserts(heappush(list, ArrivalLoadingQueue(index + 1, index)),
                       index + 1)

\* Mutant of truck_seed: the FEL is not cleared before the trucks go in.
truck_seed_without_clear(list) == truck_inserts(list, 0)

\* Lines 149-152: fel.clear(), then the inserts.
truck_seed(list) == truck_inserts(<< >>, 0)

\* get_travel_count(), lines 56-62.
get_travel_count(state_) ==
    truck_count - (state_.LQ + state_.L + state_.WQ + state_.W)

\* Mutant of handle_alq_event: the truck is loaded whether a loader is idle
\* or not.
handle_alq_event_no_queue(list, state_, dump_truck_index, service_time) ==
    LET event == EndLoading(dump_truck_index, state_.clock + service_time)
    IN  [fel |-> heappush(list, event),
         state |-> [state_ EXCEPT !.L = @ + 1],
         queue |-> queue,
         inserted |-> <<event>>]

\* Lines 64-82.  Each handler gives the FEL, the state, the queues and the
\* events it inserted.
handle_alq_event(list, state_, dump_truck_index, service_time) ==
    IF state_.L < Loaders
    THEN LET event == EndLoading(dump_truck_index, state_.clock + service_time)
         IN  [fel |-> heappush(list, event),
              state |-> [state_ EXCEPT !.L = @ + 1],
              queue |-> queue,
              inserted |-> <<event>>]
    ELSE [fel |-> list,
          state |-> [state_ EXCEPT !.LQ = @ + 1],
          queue |-> [queue EXCEPT !.L = Append(@, dump_truck_index)],
          inserted |-> << >>]

\* Lines 84-118.
handle_el_event(list, state_, dump_truck_index, service_time, next_service_time) ==
    LET weigh == state_.W = 0
        event == EndWeighing(dump_truck_index, state_.clock + service_time)
        list1 == IF weigh THEN heappush(list, event) ELSE list
        state1 == IF weigh
                  THEN [state_ EXCEPT !.L = @ - 1, !.W = 1]
                  ELSE [state_ EXCEPT !.L = @ - 1, !.WQ = @ + 1]
        queue1 == IF weigh THEN queue
                  ELSE [queue EXCEPT !.W = Append(@, dump_truck_index)]
        inserted1 == IF weigh THEN <<event>> ELSE << >>
    IN  IF state1.LQ > 0
        THEN LET next_event_ == EndLoading(Head(queue1.L),
                                           state1.clock + next_service_time)
             IN  [fel |-> heappush(list1, next_event_),
                  state |-> [state1 EXCEPT !.LQ = @ - 1, !.L = @ + 1],
                  queue |-> [queue1 EXCEPT !.L = Tail(@)],
                  inserted |-> Append(inserted1, next_event_)]
        ELSE [fel |-> list1, state |-> state1, queue |-> queue1,
              inserted |-> inserted1]

\* Mutant of handle_ew_event: the truck weighed is not sent to travel.
handle_ew_event_no_travel(list, state_, dump_truck_index, delay, service_time) ==
    LET state1 == [state_ EXCEPT !.W = 0]
    IN  IF state1.WQ > 0
        THEN LET next_event_ == EndWeighing(Head(queue.W),
                                            state1.clock + service_time)
             IN  [fel |-> heappush(list, next_event_),
                  state |-> [state1 EXCEPT !.WQ = @ - 1, !.W = 1],
                  queue |-> [queue EXCEPT !.W = Tail(@)],
                  inserted |-> <<next_event_>>]
        ELSE [fel |-> list, state |-> state1, queue |-> queue,
              inserted |-> << >>]

\* Lines 120-146.
handle_ew_event(list, state_, dump_truck_index, delay, service_time) ==
    LET event == ArrivalLoadingQueue(dump_truck_index, state_.clock + delay)
        list1 == heappush(list, event)
        state1 == [state_ EXCEPT !.W = 0]
    IN  IF state1.WQ > 0
        THEN LET next_event_ == EndWeighing(Head(queue.W),
                                            state1.clock + service_time)
             IN  [fel |-> heappush(list1, next_event_),
                  state |-> [state1 EXCEPT !.WQ = @ - 1, !.W = 1],
                  queue |-> [queue EXCEPT !.W = Tail(@)],
                  inserted |-> <<event, next_event_>>]
        ELSE [fel |-> list1, state |-> state1, queue |-> queue,
              inserted |-> <<event>>]

\* Lines 166-176: the branch of the if / elif chain an event takes.
truck_dispatch(current_event) ==
    IF current_event.type = ALQ THEN "alq"
    ELSE IF current_event.type = EL THEN "el"
    ELSE IF current_event.type = EW THEN "ew"
    ELSE IF current_event.type = END THEN "break"
    ELSE "exit"

\* Lines 38-55 and 149-155: the locals of a trial, and the seeding.  The
\* data frame states, a log of every state for the plot, is left out.
TruckSeed ==
    /\ driver = "dump_truck_operation"
    /\ pc = "Start"
    /\ fel' = truck_seed(fel)
    /\ statistics' = [total_busy_loaders |-> 0, total_busy_scale |-> 0]
    /\ queue' = [L |-> << >>, W |-> << >>]
    /\ state' = [clock |-> 0, LQ |-> 0, L |-> 0, WQ |-> 0, W |-> 0,
                 Travel |-> truck_count]
    /\ previous_event' = ArrivalLoadingQueue(truck_count, truck_count - 1)
    /\ inserted' = [index \in 1..truck_count |->
                        ArrivalLoadingQueue(index, index - 1)]
                   \o <<Event(-1, NoEntity, truck_end_time, END)>>
    /\ lastOp' = "insert_with_priority"
    /\ arg' = Event(-1, NoEntity, truck_end_time, END)
    /\ ret' = None
    /\ raised' = NoError
    /\ prevLen' = Len(fel') - 1
    /\ nIns' = truck_count + 1
    /\ nPop' = 0
    /\ deleted' = FALSE
    /\ pc' = "Loop"
    /\ UNCHANGED <<clock, states, transfer_count, uuid, allow_transfers,
                   positive, server, ret2, tn, intruder, driver, outsideDriver>>

\* One iteration of `while True`, lines 156-181, with the durations
\* rvg.empirical returns in it.  An End leaves the loop (break) and the
\* function returns the utilizations, lines 184-205; an event of no known
\* type ends the process (exit(1)).
TruckIterate ==
    /\ driver = "dump_truck_operation"
    /\ pc = "Loop"
    /\ \E service_time \in empirical, delay \in empirical,
          pop \in {next_event(fel)} :
           IF pop.item = None
           THEN /\ pc' = "Crashed"
                /\ raised' = AttributeError
                /\ ret' = None
                /\ UNCHANGED <<fel, nIns, nPop, previous_event, queue, state,
                               statistics, inserted>>
                /\ lastOp' = "get_next"
                /\ arg' = None
                /\ prevLen' = Len(fel)
           ELSE \E state_ \in {[state EXCEPT !.clock = pop.item.time]},
                   delta_time \in {pop.item.time - previous_event.time} :
                    /\ statistics' =
                           [total_busy_loaders |->
                                statistics.total_busy_loaders + delta_time * state.L,
                            total_busy_scale |->
                                statistics.total_busy_scale + delta_time * state.W]
                    /\ nPop' = nPop + 1
                    /\ IF truck_dispatch(pop.item) \in {"break", "exit"}
                       THEN /\ pc' = IF truck_dispatch(pop.item) = "break"
                                     THEN "Terminated" ELSE "Exited"
                            /\ raised' = IF truck_dispatch(pop.item) = "break"
                                         THEN NoError ELSE SystemExit
                            /\ fel' = pop.heap
                            /\ state' = state_
                            /\ inserted' = << >>
                            /\ lastOp' = "get_next"
                            /\ arg' = None
                            /\ ret' = pop.item
                            /\ prevLen' = Len(fel)
                            /\ UNCHANGED <<nIns, previous_event, queue>>
                       ELSE \E done \in {
                               CASE truck_dispatch(pop.item) = "alq" ->
                                        handle_alq_event(pop.heap, state_,
                                                         pop.item.id, service_time)
                                 [] truck_dispatch(pop.item) = "el" ->
                                        handle_el_event(pop.heap, state_,
                                                        pop.item.id, service_time,
                                                        delay)
                                 [] truck_dispatch(pop.item) = "ew" ->
                                        handle_ew_event(pop.heap, state_,
                                                        pop.item.id, delay,
                                                        service_time)} :
                                /\ fel' = done.fel
                                /\ state' = [done.state EXCEPT
                                                !.Travel = get_travel_count(done.state)]
                                /\ queue' = done.queue
                                /\ inserted' = done.inserted
                                /\ nIns' = nIns + Len(done.inserted)
                                /\ previous_event' = pop.item
                                /\ raised' = NoError
                                /\ pc' = "Loop"
                                /\ IF done.inserted = << >>
                                   THEN /\ lastOp' = "get_next"
                                        /\ arg' = None
                                        /\ ret' = pop.item
                                        /\ prevLen' = Len(fel)
                                   ELSE /\ lastOp' = "insert_with_priority"
                                        /\ arg' = done.inserted[Len(done.inserted)]
                                        /\ ret' = None
                                        /\ prevLen' = Len(done.fel) - 1
    /\ UNCHANGED <<deleted, clock, states, transfer_count, uuid, allow_transfers,
                   positive, server, ret2, tn, intruder, driver, outsideDriver>>

\* ------------------------------------------------------------ the main()s
Drivers == {"grocery_checkout", "airport_check_in", "dump_truck_operation"}

\* A process that runs the main() of one of the drivers.
InitDrivers ==
    /\ InitFel
    /\ todoIns = {}
    /\ todoDel = {}
    /\ InitOthers
    /\ InitNoEvents
    /\ InitDriver
    /\ InitMore
    /\ driver \in Drivers

\* The list comprehension of main(): when a trial has returned, the next
\* one is called, MaxTrials times after the first.
NextTrial ==
    /\ pc = "Terminated"
    /\ raised = NoError
    /\ trial < MaxTrials
    /\ pc' = "Start"
    /\ trial' = trial + 1
    /\ UNCHANGED <<felVars, hist, script, dump, fel2, ev, cmp, clock,
                   previous_event, states, statistics, transfer_count, uuid,
                   allow_transfers, positive, moreVars>>

NextDrivers ==
    \/ GrocerySeed
    \/ GroceryIterate
    \/ GroceryFinish
    \/ \E scenario \in {ALLOW_TRANSFERS, PROHIBIT_TRANSFERS} :
           driver = "airport_check_in" /\ Seed(scenario)
    \/ driver = "airport_check_in" /\ Iterate
    \/ driver = "airport_check_in" /\ Finish
    \/ TruckSeed
    \/ TruckIterate
    \/ NextTrial

SpecDrivers == InitDrivers /\ [][NextDrivers]_vars

\* The FEL is a module-level list that any importer of future_event_list
\* can insert into.  The kinds a driver has no branch for (airport_check_in
\* ends its loop on an End, so End is not among its):
ForeignKinds ==
    [d \in Drivers |->
        CASE d = "grocery_checkout" -> {END, ALQ, EL, EW}
          [] d = "airport_check_in" -> {ALQ, EL, EW}
          [] d = "dump_truck_operation" -> {ARRIVAL, DEPARTURE}]

\* Once in a trial, a caller other than the driver inserts an event of a
\* kind foreign to the driver, due at a time 0..end_time.
Intrude(event) ==
    /\ pc = "Loop"
    /\ intruder = None
    /\ event.type \in ForeignKinds[driver]
    /\ insert_with_priority(event)
    /\ intruder' = event
    /\ UNCHANGED <<hist, script, dump, trial, fel2, ev, cmp, pc, clock,
                   previous_event, states, statistics, transfer_count, uuid,
                   allow_transfers, positive, driver, server, queue, state,
                   inserted, ret2, tn>>

\* A single trial of a driver, with such a caller.
NextIntruder ==
    \/ GrocerySeed
    \/ GroceryIterate
    \/ GroceryFinish
    \/ \E scenario \in {ALLOW_TRANSFERS, PROHIBIT_TRANSFERS} :
           driver = "airport_check_in" /\ Seed(scenario)
    \/ driver = "airport_check_in" /\ Iterate
    \/ driver = "airport_check_in" /\ Finish
    \/ TruckSeed
    \/ TruckIterate
    \/ \E time \in 0..end_time, type \in {ARRIVAL, DEPARTURE, END, ALQ, EL, EW} :
           Intrude(Event(-1, NoEntity, time, type))

SpecIntruder == InitDrivers /\ [][NextIntruder]_vars


\* ------------------------------------------- the pop of a textbook min-heap
\* The single-pass sift-down that min_heap.py does not use: the element put
\* at the root goes down while its smaller child is < it, and stops at the
\* first level where it is not.
RECURSIVE single_pass_loop(_, _, _)
single_pass_loop(heap, current_index, new_element) ==
    IF get_child_index(current_index) < Len(heap)
    THEN LET child_index == smaller_child(heap, get_child_index(current_index))
         IN  IF Lt(At(heap, child_index), new_element)
             THEN single_pass_loop(Put(heap, current_index, At(heap, child_index)),
                                   child_index, new_element)
             ELSE Put(heap, current_index, new_element)
    ELSE Put(heap, current_index, new_element)

single_pass_heappop(heap) ==
    IF heap = << >>
    THEN [heap |-> heap, item |-> None, raised |-> IndexError]
    ELSE LET end_element == heap[Len(heap)]
             rest == SubSeq(heap, 1, Len(heap) - 1)
         IN  IF rest # << >>
             THEN [heap |-> single_pass_loop(rest, 0, end_element),
                   item |-> rest[1], raised |-> NoError]
             ELSE [heap |-> rest, item |-> end_element, raised |-> NoError]

\* The same pushes and pops made on two heaps: fel is popped by heappop of
\* min_heap.py, fel2 by the single-pass pop; ret and ret2 are what the two
\* pops returned.
RefPush(item) ==
    /\ nIns < MaxInserts
    /\ fel' = heappush(fel, item)
    /\ fel2' = heappush(fel2, item)
    /\ lastOp' = "heappush"
    /\ arg' = item
    /\ ret' = None
    /\ ret2' = None
    /\ raised' = NoError
    /\ prevLen' = Len(fel)
    /\ nIns' = nIns + 1
    /\ UNCHANGED <<nPop, deleted, hist, script, dump, trial, ev, cmp, pc,
                   clock, previous_event, states, statistics, transfer_count,
                   uuid, allow_transfers, positive, driver, server, queue,
                   state, inserted, tn, intruder>>

RefPop ==
    /\ \E pop \in {heappop(fel)}, pop2 \in {single_pass_heappop(fel2)} :
           /\ fel' = pop.heap
           /\ fel2' = pop2.heap
           /\ ret' = pop.item
           /\ ret2' = pop2.item
           /\ raised' = pop.raised
           /\ nPop' = IF pop.raised = NoError THEN nPop + 1 ELSE nPop
    /\ lastOp' = "heappop"
    /\ arg' = None
    /\ prevLen' = Len(fel)
    /\ UNCHANGED <<nIns, deleted, hist, script, dump, trial, ev, cmp, pc,
                   clock, previous_event, states, statistics, transfer_count,
                   uuid, allow_transfers, positive, driver, server, queue,
                   state, inserted, tn, intruder>>

NextRefPop ==
    \/ \E t \in Times, k \in Kinds : RefPush(Event(0, ECONOMY_CLASS, t, k))
    \/ RefPop

SpecRefPop == Init /\ [][NextRefPop]_vars

\* --------------------------------------------- heapq, the PYTHON_HEAP backend
\* heapq of CPython (Lib/heapq.py; the C accelerator makes the same
\* comparisons).  Its _siftdown(heap, startpos, pos) is, step for step,
\* sift_up of min_heap.py, which stands for it here.
heapq_heappush(heap, item) == sift_up(Append(heap, item), 0, Len(heap))

\* The child _siftup moves up: the right one iff it exists and the left one
\* is not < it.
heapq_child(heap, childpos) ==
    IF childpos + 1 < Len(heap)
       /\ ~Lt(At(heap, childpos), At(heap, childpos + 1))
    THEN childpos + 1
    ELSE childpos

\* The while loop of _siftup: the hole goes from pos down to a leaf.
RECURSIVE heapq_siftup_loop(_, _)
heapq_siftup_loop(heap, pos) ==
    IF 2 * pos + 1 < Len(heap)
    THEN LET childpos == heapq_child(heap, 2 * pos + 1)
         IN  heapq_siftup_loop(Put(heap, pos, At(heap, childpos)), childpos)
    ELSE [heap |-> heap, index |-> pos]

heapq_siftup(heap, pos) ==
    LET newitem == At(heap, pos)
        moved == heapq_siftup_loop(heap, pos)
    IN  sift_up(Put(moved.heap, moved.index, newitem), pos, moved.index)

\* heapq.heappop on a non-empty list (get_next calls it on no other).
heapq_heappop(heap) ==
    LET lastelt == heap[Len(heap)]
        rest == SubSeq(heap, 1, Len(heap) - 1)
    IN  IF rest # << >>
        THEN [heap |-> heapq_siftup(Put(rest, 0, lastelt), 0), item |-> rest[1]]
        ELSE [heap |-> rest, item |-> lastelt]

\* heapq.heapify: `for i in reversed(range(n // 2)): _siftup(x, i)`.
RECURSIVE heapq_heapify_from(_, _)
heapq_heapify_from(x, i) ==
    IF i < 0 THEN x ELSE heapq_heapify_from(heapq_siftup(x, i), i - 1)

heapq_heapify(x) == heapq_heapify_from(x, Len(x) \div 2 - 1)

\* The same calls made on the FEL under either setting of
\* HEAP_IMPLEMENTATION: fel is the list under CUSTOM_HEAP, fel2 the list
\* under PYTHON_HEAP; ret and ret2 are what get_next returned.
BackendInsert(event) ==
    /\ nIns < MaxInserts
    /\ insert_with_priority(event)
    /\ fel2' = heapq_heappush(fel2, event)
    /\ ret2' = None
    /\ UNCHANGED <<hist, script, dump, trial, ev, cmp, pc, clock,
                   previous_event, states, statistics, transfer_count, uuid,
                   allow_transfers, positive, driver, server, queue, state,
                   inserted, tn, intruder>>

BackendGetNext ==
    /\ get_next
    /\ IF fel2 # << >>
       THEN \E pop \in {heapq_heappop(fel2)} :
                /\ fel2' = pop.heap
                /\ ret2' = pop.item
       ELSE /\ ret2' = None
            /\ UNCHANGED fel2
    /\ UNCHANGED <<hist, script, dump, trial, ev, cmp, pc, clock,
                   previous_event, states, statistics, transfer_count, uuid,
                   allow_transfers, positive, driver, server, queue, state,
                   inserted, tn, intruder>>

BackendDelete(event) ==
    /\ delete(event)
    /\ IF fel2 = << >>
       THEN fel2' = fel2
       ELSE fel2' = heapq_heapify(SelectSeq(fel2, LAMBDA e : ~Eq(e, event)))
    /\ ret2' = None
    /\ UNCHANGED <<hist, script, dump, trial, ev, cmp, pc, clock,
                   previous_event, states, statistics, transfer_count, uuid,
                   allow_transfers, positive, driver, server, queue, state,
                   inserted, tn, intruder>>

NextBackends ==
    \/ \E t \in Times, k \in Kinds : BackendInsert(Event(0, ECONOMY_CLASS, t, k))
    \/ BackendGetNext
    \/ \E t \in Times, k \in Kinds : BackendDelete(Event(0, ECONOMY_CLASS, t, k))

SpecBackends == Init /\ [][NextBackends]_vars

\* ------------------------------------------------- heapify on any sequence
\* heapify handed a list of up to MaxInserts events in any order: fel is
\* the list, rearranged in place; ev keeps what the list was.
InitHeapify ==
    /\ \E n \in 0..MaxInserts :
           fel \in [1..n -> {Event(0, ECONOMY_CLASS, t, k) : t \in Times, k \in Kinds}]
    /\ ev = fel
    /\ lastOp = "clear"
    /\ arg = None
    /\ ret = None
    /\ raised = NoError
    /\ prevLen = Len(fel)
    /\ nIns = 0
    /\ nPop = 0
    /\ deleted = FALSE
    /\ popped = << >>
    /\ fresh = TRUE
    /\ phase = "fill"
    /\ todoIns = {}
    /\ todoDel = {}
    /\ InitOthers
    /\ cmp = << >>
    /\ InitDriver
    /\ InitMore
    /\ driver = NoDriver

Heapify ==
    /\ lastOp # "heapify"
    /\ fel' = heapify(fel)
    /\ lastOp' = "heapify"
    /\ UNCHANGED <<arg, ret, raised, prevLen, nIns, nPop, deleted, hist, script,
                   dump, others>>

NextHeapify == Heapify

SpecHeapify == InitHeapify /\ [][NextHeapify]_vars

\* ------------------------------------------- random_variate_generators.py
\* What normal(mu, sigma) may return.
Samples == (0 - MaxSample)..MaxSample

\* The bounds a caller may pass: one step beyond the samples on either side
\* stands for -inf and inf, the defaults.
Limits == (0 - MaxSample - 1)..(MaxSample + 1)

\* Mutant of in_bounds: the upper bound is not looked at.
in_bounds_lower_only(a, b, x) == a <= x

\* `a <= x <= b`
in_bounds(a, b, x) == a <= x /\ x <= b

\* truncated_normal, statement by statement: the first sample (line 66),
\* the loop that draws again (lines 67-68) and the return (line 69).
TnCall(a, b, x) ==
    /\ tn.pc = "NONE"
    /\ tn' = [a |-> a, b |-> b, x |-> x, samples |-> 1, pc |-> "while"]
    /\ UNCHANGED <<felVars, hist, script, dump, trial, fel2, ev, cmp, pc, clock,
                   previous_event, states, statistics, transfer_count, uuid,
                   allow_transfers, positive, driver, server, queue, state,
                   inserted, ret2, intruder>>

TnResample(x) ==
    /\ tn.pc = "while"
    /\ ~in_bounds(tn.a, tn.b, tn.x)
    /\ tn.samples < MaxDraws
    /\ tn' = [tn EXCEPT !.x = x, !.samples = @ + 1]
    /\ UNCHANGED <<felVars, hist, script, dump, trial, fel2, ev, cmp, pc, clock,
                   previous_event, states, statistics, transfer_count, uuid,
                   allow_transfers, positive, driver, server, queue, state,
                   inserted, ret2, intruder>>

TnReturn ==
    /\ tn.pc = "while"
    /\ in_bounds(tn.a, tn.b, tn.x)
    /\ tn' = [tn EXCEPT !.pc = "returned"]
    /\ UNCHANGED <<felVars, hist, script, dump, trial, fel2, ev, cmp, pc, clock,
                   previous_event, states, statistics, transfer_count, uuid,
                   allow_transfers, positive, driver, server, queue, state,
                   inserted, ret2, intruder>>

NextTruncatedNormal ==
    \/ \E a \in Limits, b \in Limits, x \in Samples : TnCall(a, b, x)
    \/ \E x \in Samples : TnResample(x)
    \/ TnReturn

SpecTruncatedNormal == Init /\ [][NextTruncatedNormal]_vars

\* ------------------------------------------ events that can be told apart
\* A caller whose events carry the number of their insert as id, so that
\* two events of the same time and kind are still two events: at most
\* MaxInserts inserts, and get_next at any moment.  phase is "fill" while
\* nothing was popped, "drain" from the first get_next on, "mixed" once an
\* insert followed a get_next.  As long as the calls are inserts followed by
\* pops, inserted is what was inserted and popped what get_next returned, in
\* order; they are dropped when the phase becomes "mixed".
IdInsert(time, type) ==
    /\ nIns < MaxInserts
    /\ insert_with_priority(Event(nIns, ECONOMY_CLASS, time, type))
    /\ inserted' = IF phase = "fill"
                   THEN Append(inserted, Event(nIns, ECONOMY_CLASS, time, type))
                   ELSE << >>
    /\ popped' = << >>
    /\ phase' = IF phase = "fill" THEN "fill" ELSE "mixed"
    /\ UNCHANGED <<fresh, script, dump, trial, fel2, ev, cmp, pc, clock,
                   previous_event, states, statistics, transfer_count, uuid,
                   allow_transfers, positive, driver, server, queue, state,
                   ret2, tn, intruder>>

IdGetNext ==
    /\ get_next
    /\ popped' = IF ret' # None /\ phase # "mixed" THEN Append(popped, ret')
                                                   ELSE popped
    /\ phase' = IF phase = "mixed" THEN "mixed" ELSE "drain"
    /\ UNCHANGED <<fresh, script, dump, others>>

NextIds ==
    \/ \E t \in Times, k \in Kinds : IdInsert(t, k)
    \/ IdGetNext

SpecIds == Init /\ [][NextIds]_vars

\* ------------------------------------------------------------ properties
\* (time, kind) equality, written out (the claims speak of it directly).
SameTimeKind(a, b) == a.time = b.time /\ a.type = b.type

\* The heap property under the Ordering Relation: no child has a smaller
\* time than its parent, and at equal time no Arrival sits below a
\* non-Arrival parent.
HeapProperty(heap) ==
    \A i \in 1..(Len(heap) - 1) :
        LET parent == At(heap, (i - 1) \div 2)
            child == At(heap, i)
        IN  /\ parent.time <= child.time
            /\ (parent.time = child.time /\ child.type = ARRIVAL)
                   => parent.type = ARRIVAL

NonDecreasingTime(seq) ==
    \A i \in 1..(Len(seq) - 1) : seq[i].time <= seq[i + 1].time

\* How many entries of seq are equal to event in every field.
Count(seq, event) == Cardinality({i \in DOMAIN seq : seq[i] = event})

\* seq1 and seq2 hold the same events, each as often, in whatever order.
SameEvents(seq1, seq2) ==
    /\ Len(seq1) = Len(seq2)
    /\ \A i \in DOMAIN seq1 : Count(seq1, seq1[i]) = Count(seq2, seq1[i])

\* C1: starting from a cleared FEL, after every insert_with_priority,
\* get_next and delete in any sequence, the backing array satisfies the heap
\* property: for every index i > 0 the element at (i-1)//2 has a time <= the
\* time of the element at i, and at equal time an Arrival never sits below a
\* non-Arrival parent.
C1_HeapInvariant == HeapProperty(fel)

\* A delete has removed an event and re-heapified the three others, of
\* which an Arrival child ties with the root on time.
C1_Witness ==
    /\ lastOp = "delete" /\ prevLen > Len(fel)
    /\ Len(fel) = 3
    /\ fel[1].time = fel[3].time /\ fel[3].type = ARRIVAL

\* C2: N events inserted into a cleared FEL and then drained with get_next:
\* the empty sentinel is returned only after exactly N events have been
\* returned (no event is lost and none is returned twice), and the returned
\* sequence is non-decreasing in time.
C2_DrainReturnsAllInTimeOrder ==
    phase = "drain" =>
        /\ Len(popped) + Len(fel) = nIns
        /\ (lastOp = "get_next" /\ ret = None) => Len(popped) = nIns
        /\ (lastOp = "get_next" /\ Len(popped) < nIns) => ret # None
        /\ NonDecreasingTime(popped)

\* Four events of two different times were inserted, all four were returned
\* and then the sentinel.
C2_Witness ==
    /\ phase = "drain" /\ lastOp = "get_next" /\ ret = None
    /\ nIns = 4 /\ Len(popped) = 4
    /\ popped[1].time < popped[4].time

\* C3: N events inserted and then drained: within each group of popped
\* events sharing the same time every Arrival is popped before every
\* non-Arrival of that group.
C3_ArrivalsFirstAtEqualTime ==
    phase = "drain" =>
        \A i, j \in DOMAIN popped :
            (i < j /\ popped[i].time = popped[j].time /\ popped[j].type = ARRIVAL)
                => popped[i].type = ARRIVAL

\* A drained run whose pops hold an Arrival, a Departure and an End of one
\* time.
C3_Witness ==
    /\ phase = "drain" /\ fel = << >> /\ Len(popped) >= 3
    /\ \E i, j, k \in DOMAIN popped :
           /\ popped[i].type = ARRIVAL /\ popped[j].type = DEPARTURE
           /\ popped[k].type = END
           /\ popped[i].time = popped[j].time /\ popped[j].time = popped[k].time

\* C4: N events inserted and then drained: an End event is never popped
\* before an event of another kind (Arrival or Departure) that has the same
\* time.
C4_EndNeverBeforeOtherKind ==
    phase = "drain" =>
        \A i, j \in DOMAIN popped :
            (i < j /\ popped[i].time = popped[j].time /\ popped[i].type = END)
                => popped[j].type = END

\* The (time, kind) pairs of a sequence of events.
TimeKinds(seq) == [i \in DOMAIN seq |-> <<seq[i].time, seq[i].type>>]

\* How many entries of seq have the time and kind of event.
Matches(seq, event) ==
    Cardinality({i \in DOMAIN seq : SameTimeKind(seq[i], event)})

\* seq without its first entry, in array order, that has the time and kind
\* of event (seq itself if there is none).
WithoutFirstMatch(seq, event) ==
    IF Matches(seq, event) = 0 THEN seq
    ELSE LET first == CHOOSE i \in DOMAIN seq :
                         /\ SameTimeKind(seq[i], event)
                         /\ \A j \in 1..(i - 1) : ~SameTimeKind(seq[j], event)
         IN  SubSeq(seq, 1, first - 1) \o SubSeq(seq, first + 1, Len(seq))

\* after holds exactly the events of before that do not have the time and
\* kind of probe, each as often as before did.
OnlyMatchesRemoved(before, after, probe) ==
    \A event \in {before[i] : i \in DOMAIN before} \cup {after[j] : j \in DOMAIN after} :
        Count(after, event) =
            IF SameTimeKind(event, probe) THEN 0 ELSE Count(before, event)

\* Time non-decreasing and, at equal time, Arrivals before the other kinds.
Ascending(seq) ==
    \A i \in 1..(Len(seq) - 1) :
        /\ seq[i].time <= seq[i + 1].time
        /\ (seq[i].time = seq[i + 1].time /\ seq[i + 1].type = ARRIVAL)
               => seq[i].type = ARRIVAL

\* C5 as stated: delete(e) removes only the first resident event, in array
\* order, whose (time, kind) equals e's, so length() drops by at most 1; in
\* Scenario A draining yields Arrival 20, Arrival 30, Arrival 40.
C5_DeleteRemovesFirstMatchOnly ==
    [][ /\ lastOp' = "delete" =>
               /\ Len(fel') >= Len(fel) - 1
               /\ SameEvents(fel', WithoutFirstMatch(fel, arg'))
        /\ ScenarioDone' =>
               TimeKinds(popped') =
                   << <<20, ARRIVAL>>, <<30, ARRIVAL>>, <<40, ARRIVAL>> >>
      ]_vars

\* C5 as amended: delete(e) removes every resident event whose (time, kind)
\* equals e's, so length() drops by the number of such events (2 for the
\* two Arrival 20 of Scenario A); in Scenario A draining yields Arrival 30,
\* Arrival 40.
C5_DeleteRemovesEveryMatch ==
    [][ /\ lastOp' = "delete" =>
               /\ Len(fel') = Len(fel) - Matches(fel, arg')
               /\ OnlyMatchesRemoved(fel, fel', arg')
        /\ ScenarioDone' =>
               TimeKinds(popped') = << <<30, ARRIVAL>>, <<40, ARRIVAL>> >>
      ]_vars

\* delete(Arrival(time=20)) has just removed both Arrival 20 events.
C5_Witness ==
    /\ lastOp = "delete" /\ arg = Event(-1, NoEntity, 20, ARRIVAL)
    /\ prevLen = Len(fel) + 2

\* C6: delete(e) removes every resident event whose (time, kind) equals
\* e's: after the call no resident event matches e, and draining with
\* get_next returns exactly the non-matching events, in ascending order.
C6_DeleteLeavesNoMatch ==
    /\ [][ lastOp' = "delete" =>
                /\ \A j \in DOMAIN fel' : ~SameTimeKind(fel'[j], arg')
                /\ OnlyMatchesRemoved(fel, fel', arg')
          ]_vars
    /\ [](lastOp = "delete" =>
              \A drained \in {DrainSeq(fel)} :
                  SameEvents(drained, fel) /\ Ascending(drained))

\* One delete call has removed two events and left two.
C6_Witness ==
    /\ lastOp = "delete"
    /\ prevLen = 4 /\ Len(fel) = 2

\* C7: delete(e) on an empty FEL, or with e matching no resident event,
\* leaves length() and the sequence returned by the following get_next
\* calls as they would be without the call.
C7_DeleteOfAbsentChangesNothing ==
    [][ (lastOp' = "delete" /\ Matches(fel, arg') = 0) =>
            /\ Len(fel') = Len(fel)
            /\ DrainSeq(fel') = DrainSeq(fel)
      ]_vars

\* C8: deletion matches on (time, kind) only: delete(e) removes a resident
\* event of e's time and kind even when its id or entity tag differs from
\* e's, and never removes or alters a resident event whose time or kind
\* differs from e's.
C8_DeleteMatchesTimeAndKindOnly ==
    [][ lastOp' = "delete" =>
            /\ \A i \in DOMAIN fel :
                   (/\ SameTimeKind(fel[i], arg')
                    /\ fel[i].id # arg'.id \/ fel[i].entity # arg'.entity)
                       => Count(fel', fel[i]) = 0
            /\ \A i \in DOMAIN fel :
                   ~SameTimeKind(fel[i], arg')
                       => Count(fel', fel[i]) = Count(fel, fel[i])
            /\ \A j \in DOMAIN fel' : \E i \in DOMAIN fel : fel'[j] = fel[i]
      ]_vars

\* A delete has removed an event whose id and tag differ from the probe's and has
\* left an event of the probe's time (another kind) and one of the probe's
\* kind (another time).
C8_Witness ==
    /\ lastOp = "delete" /\ prevLen > Len(fel)
    /\ \E i, j \in DOMAIN fel :
           /\ fel[i].time = arg.time /\ fel[i].type # arg.type
           /\ fel[j].type = arg.type /\ fel[j].time # arg.time
           /\ fel[i].id # arg.id /\ fel[i].entity # arg.entity

\* C9: after I insert_with_priority calls and D successful get_next calls
\* in any interleaving, with no delete call, length() = I - D.
C9_CountConservation == ~deleted => Len(fel) = nIns - nPop

\* Four inserts and two successful pops, the last insert after a pop.
C9_Witness ==
    /\ ~deleted /\ nIns = 4 /\ nPop = 2
    /\ lastOp = "insert_with_priority" /\ prevLen = 1

\* C10: in any interleaving of insert_with_priority and get_next in which
\* every inserted event has a time >= the time of the most recently popped
\* event, the times of the popped events are non-decreasing.
C10_MonotoneInsertsPopInTimeOrder == fresh => NonDecreasingTime(popped)

\* Inserts and pops were interleaved, three pops of which the last is later
\* than the first, and a fourth event came in after the second pop.
C10_Witness ==
    /\ fresh /\ phase = "mixed" /\ nIns = 4
    /\ Len(popped) = 3 /\ popped[1].time < popped[3].time
    /\ lastOp = "get_next" /\ fel # << >>

\* C11: get_next() on an empty FEL returns None without raising and leaves
\* the FEL empty; heappop is never called on an empty array (no call of
\* get_next ends in the IndexError of heappop).
C11_GetNextOnEmptyReturnsNone ==
    lastOp = "get_next" =>
        /\ raised = NoError
        /\ prevLen = 0 => (ret = None /\ fel = << >>)

\* get_next was called on a FEL that a run of inserts and pops had emptied.
C11_Witness ==
    lastOp = "get_next" /\ prevLen = 0 /\ nIns = 2 /\ nPop = 2 /\ ret = None

\* C12: heappop called on an empty heap raises an error instead of returning
\* a value, and the heap is still empty afterwards; on a nonempty heap it
\* returns a value.
C12_HeappopOnEmptyRaises ==
    lastOp = "heappop" =>
        /\ prevLen = 0 => (raised = IndexError /\ ret = None /\ fel = << >>)
        /\ prevLen > 0 => (raised = NoError /\ ret # None)

\* heappop was called once more than there were items.
C12_Witness ==
    lastOp = "heappop" /\ prevLen = 0 /\ raised = IndexError
    /\ nIns = 2 /\ nPop = 2

\* C13: peek() returns None if the FEL is empty and otherwise a resident
\* event whose time is <= the time of every resident event; peek() does not
\* change the FEL, and a get_next() called right after it returns the very
\* event peek() returned.
C13_PeekIsNextWithoutRemoving ==
    /\ [](lastOp = "peek" =>
             IF fel = << >> THEN ret = None
             ELSE /\ \E i \in DOMAIN fel : fel[i] = ret
                  /\ \A i \in DOMAIN fel : ret.time <= fel[i].time)
    /\ [][/\ lastOp' = "peek" => fel' = fel
          /\ (lastOp = "peek" /\ lastOp' = "get_next") => ret' = ret]_vars

\* peek() on a FEL of three events that a delete has re-heapified, the
\* event it returned tying on time with another resident.
C13_Witness ==
    /\ lastOp = "peek" /\ deleted /\ Len(fel) = 3
    /\ ret.type = DEPARTURE /\ \E i \in 2..3 : fel[i].time = ret.time

\* C14: print_fel, whenever it is called (after N inserts in particular),
\* logs exactly the resident events, each as often as it is resident, in
\* ascending order (time non-decreasing, and at equal time no Arrival after
\* a non-Arrival), and it leaves the FEL array as it was, so that the
\* get_next calls after it return what they would have returned without it.
C14_DumpIsSortedAndReadOnly ==
    /\ [](lastOp = "print_fel" =>
             /\ Len(dump) = Len(fel)
             /\ SameEvents(dump, fel)
             /\ Ascending(dump))
    /\ [][lastOp' = "print_fel" => fel' = fel]_vars

\* The dump of four freshly inserted events with a tie between an Arrival
\* and a Departure, the array being in another order than the dump.
C14_Witness ==
    /\ lastOp = "print_fel" /\ phase = "fill" /\ nIns = 4 /\ Len(dump) = 4
    /\ dump # fel
    /\ \E i \in 1..3 : /\ dump[i].time = dump[i + 1].time
                        /\ dump[i].type = ARRIVAL /\ dump[i + 1].type = DEPARTURE

\* C15: clear() empties the FEL whatever it held: length() is 0 after it,
\* a peek() or get_next() called right after it returns None, and no event
\* inserted before a clear() is resident or returned by get_next after it
\* (every resident and every returned event is of the current trial).
C15_ClearResetsToEmpty ==
    /\ [](lastOp = "clear" => length = 0)
    /\ [](\A i \in DOMAIN fel : fel[i].id = trial)
    /\ []((lastOp = "get_next" /\ ret # None) => ret.id = trial)
    /\ [][(lastOp = "clear" /\ lastOp' \in {"peek", "get_next"})
              => ret' = None]_vars

\* The clear() that starts the second trial found three events resident.
C15_Witness == lastOp = "clear" /\ trial = 1 /\ prevLen = 3

\* C16: Event.__lt__ is a strict order over the events of bounded times and
\* the three kinds: no event precedes itself, no two events precede each
\* other, and precedence is transitive.
C16_LtIsStrictOrder ==
    cmp # << >> =>
        /\ \A i \in 1..3 : ~cmp[i][i]
        /\ \A i, j \in 1..3 : ~(cmp[i][j] /\ cmp[j][i])
        /\ \A i, j, k \in 1..3 : (cmp[i][j] /\ cmp[j][k]) => cmp[i][k]

C18_PopOrderIndependentOfInsertOrder ==
    SameEvents(fel, fel2) =>
        TimeKinds(DrainSeq(fel)) = TimeKinds(DrainSeq(fel2))

\* C19: airport_check_in, seeded with an Arrival per class at time 0 and an
\* End at end_time, halts in the iteration that pops that End and in no
\* other: until then the End is resident and the run neither returns nor
\* raises; the iteration that pops it sets the clock to end_time, inserts
\* nothing and leaves every other event resident; after it no event is
\* dispatched and no FEL call is made, the function returns, and the clock
\* at the return is end_time.
C19_HaltsWhenEndIsPopped ==
    /\ [](pc # "Crashed")
    /\ []((pc = "Loop" /\ previous_event.type # END) =>
             \E i \in DOMAIN fel : fel[i].type = END /\ fel[i].time = end_time)
    /\ [](pc = "Terminated" =>
             /\ previous_event.type = END
             /\ clock = end_time
             /\ lastOp = "get_next" /\ ret.type = END)
    /\ [][(previous_event.type # END /\ previous_event'.type = END) =>
             /\ clock' = end_time
             /\ Len(fel') = Len(fel) - 1
             /\ \A i \in DOMAIN fel :
                    Count(fel', fel[i]) =
                        Count(fel, fel[i]) - (IF fel[i].type = END THEN 1 ELSE 0)]_vars
    /\ [][previous_event.type = END =>
             /\ pc' = "Terminated"
             /\ fel' = fel /\ clock' = clock /\ states' = states
             /\ statistics' = statistics /\ nIns' = nIns /\ nPop' = nPop]_vars

\* The run has returned; a Departure due at end_time and the next Arrival
\* of each class are still resident.
C19_Witness ==
    /\ pc = "Terminated"
    /\ \E i \in DOMAIN fel : fel[i].type = DEPARTURE /\ fel[i].time = end_time
    /\ \A flight_class \in FlightClasses :
           \E i \in DOMAIN fel :
               fel[i].type = ARRIVAL /\ fel[i].entity = flight_class

C21_NoFelOperationOnceLastDepartureCounted ==
    [][(driver = "grocery_checkout" /\ pc = "Loop") =>
           /\ nPop' # nPop => statistics.departure_count < customer_limit
           /\ (/\ statistics.departure_count < customer_limit
               /\ statistics'.departure_count = customer_limit)
                  => inserted' = << >>
           /\ statistics.departure_count >= customer_limit
                  => UNCHANGED <<fel, nIns, nPop, lastOp>>]_vars

\* C21 as amended: departure_count < customer_limit is checked before every
\* get_next, and once the iteration that counts the customer_limit-th
\* Departure has ended no FEL operation follows; that iteration itself may
\* still insert the Departure of the next customer in line.
C21_NoFelOperationAfterLastIteration ==
    [][(driver = "grocery_checkout" /\ pc = "Loop") =>
           /\ nPop' # nPop => statistics.departure_count < customer_limit
           /\ (/\ statistics.departure_count < customer_limit
               /\ statistics'.departure_count = customer_limit)
                  => \A i \in DOMAIN inserted' : inserted'[i].type = DEPARTURE
           /\ statistics.departure_count >= customer_limit
                  => UNCHANGED <<fel, nIns, nPop, lastOp>>]_vars

\* A trial of grocery_checkout has returned, and its last iteration, the one
\* that counted the last Departure, inserted the Departure of a customer who
\* was waiting.
C21_Witness ==
    /\ driver = "grocery_checkout"
    /\ pc = "Terminated"
    /\ statistics.departure_count = customer_limit
    /\ Len(inserted) = 1
    /\ inserted[1].type = DEPARTURE

\* C22: inside the main loop of grocery_checkout, airport_check_in and
\* dump_truck_operation the FEL is non-empty every time get_next() is called:
\* whenever a driver is at its loop head and the loop goes on, the FEL holds
\* an event, so get_next never returns None there and no driver fails on
\* current_event.time.
C22_FelNonEmptyAtEveryGetNext ==
    /\ pc # "Crashed"
    /\ raised # AttributeError
    /\ (/\ pc = "Loop"
        /\ CASE driver = "grocery_checkout" ->
                     statistics.departure_count < customer_limit
              [] driver = "airport_check_in" -> previous_event.type # END
              [] OTHER -> TRUE)
           => fel # << >>

\* dump_truck_operation is in its loop and get_next has returned two events
\* to it.
C22_Witness ==
    /\ driver = "dump_truck_operation"
    /\ pc = "Loop"
    /\ nPop >= 2
    /\ lastOp = "insert_with_priority"

\* C23: the identity counter is reset at the start of every trial: in
\* grocery_checkout and in airport_check_in, the first Arrival a trial seeds
\* has id 0, however many trials the process ran before it.
C23_FirstArrivalOfEveryTrialHasIdZero ==
    (/\ driver \in {"grocery_checkout", "airport_check_in"}
     /\ pc = "Loop"
     /\ nPop = 0)
        => /\ inserted[1].type = ARRIVAL
           /\ inserted[1].id = 0

\* C24: every trial of every driver calls clear() on the shared FEL before
\* it inserts its seed events, so no event inserted during an earlier trial
\* is popped in a later one: when a trial has seeded the FEL, the FEL holds
\* the seed events and nothing else, and at every loop head of the trial it
\* holds as many events as the trial has inserted and not yet popped.
C24_NoEventOfAnEarlierTrialIsPopped ==
    /\ [][(pc = "Start" /\ pc' = "Loop") => SameEvents(fel', inserted')]_vars
    /\ [](pc = "Loop" => Len(fel) = nIns - nPop)

\* A second trial of grocery_checkout, started on the FEL in which the first
\* trial left events behind, has popped events and returned.
C24_Witness ==
    /\ driver = "grocery_checkout"
    /\ trial = 1
    /\ pc = "Terminated"
    /\ nPop >= 2
    /\ fel # << >>

\* C25: every event a handler of grocery_checkout or airport_check_in
\* inserts has a time >= the current clock, and the clock never decreases
\* from one dispatched event to the next.
C25_InsertsNotBeforeClockAndClockMonotone ==
    [][(/\ driver \in {"grocery_checkout", "airport_check_in"}
        /\ pc = "Loop"
        /\ pc' = "Loop")
           => /\ \A i \in DOMAIN inserted' : inserted'[i].time >= clock'
              /\ clock' >= clock]_vars

\* C26: a driver that pops an event whose kind matches none of its handlers
\* aborts the run instead of going on with the next loop iteration, in
\* dump_truck_operation, grocery_checkout and airport_check_in: the step
\* that pops such an event ends the process.
C26_UnhandledKindAbortsTheRun ==
    [][(/\ pc = "Loop"
        /\ nPop' = nPop + 1
        /\ At(fel, 0).type \in ForeignKinds[driver])
           => /\ pc' = "Exited"
              /\ raised' = SystemExit]_vars

\* C27: the pop of min_heap.py (last element to the root, the smaller child
\* moved up along the path to a leaf, the element sifted up from where it
\* landed) and a single-pass sift-down pop are equivalent: after the same
\* pushes and pops both have returned the same (time, kind) at every pop and
\* both arrays are valid heaps.
C27_ReferencePopEquivalentToSinglePass ==
    /\ SameTimeKind(ret, ret2)
    /\ HeapProperty(fel)
    /\ HeapProperty(fel2)

\* C28: the two heap backends selectable through HEAP_IMPLEMENTATION are
\* interchangeable: after the same insert_with_priority, get_next and delete
\* calls the FEL has returned the same (time, kind) at every get_next and has
\* the same length() under either backend.
C28_BackendsInterchangeable ==
    /\ SameTimeKind(ret, ret2)
    /\ Len(fel) = Len(fel2)

\* C29: heapify(seq) applied to any sequence of events, in any order,
\* rearranges it into an array in which every parent's time is <= its
\* children's times, and which holds exactly the same multiset of events.
C29_HeapifyGivesHeapOfSameEvents ==
    lastOp = "heapify" =>
        /\ \A i \in 1..(Len(fel) - 1) :
               At(fel, get_parent_index(i)).time <= At(fel, i).time
        /\ SameEvents(fel, ev)

C29_Witness ==
    /\ lastOp = "heapify"
    /\ Len(ev) >= 4
    /\ ev[4].time < ev[2].time
    /\ ev[4].time < ev[1].time
    /\ fel[1] = ev[4]

\* C30: truncated_normal(mu, sigma, a, b) keeps resampling until the sample
\* lies in [a, b]: whenever it has returned, the value x it returned has
\* a <= x <= b, and once a sample lies inside the interval the next step is
\* the return of that sample, without another draw.
C30_ReturnsFirstSampleInside ==
    /\ [](tn.pc = "returned" => (tn.a <= tn.x /\ tn.x <= tn.b))
    /\ [][(tn.pc = "while" /\ tn.a <= tn.x /\ tn.x <= tn.b)
              => tn' = [tn EXCEPT !.pc = "returned"]]_vars

C30_Witness ==
    /\ tn.pc = "returned"
    /\ tn.samples = MaxDraws
    /\ tn.a = tn.x
    /\ tn.x < tn.b

\* C31: push and pop conserve the resident events: insert_with_priority
\* adds exactly the given event, and each successful get_next returns an
\* event that was resident and leaves exactly the previous multiset minus
\* that one event; sifting never duplicates, loses or alters an event.
C31_PushAndPopConserveEvents ==
    [][/\ lastOp' = "insert_with_priority" => SameEvents(fel', Append(fel, arg'))
       /\ (lastOp' = "get_next" /\ fel # << >>) =>
              /\ ret' # None
              /\ Count(fel, ret') = 1
              /\ SameEvents(Append(fel', ret'), fel)
       /\ (lastOp' = "get_next" /\ fel = << >>) => fel' = << >>]_vars

C31_Witness ==
    /\ lastOp = "get_next"
    /\ phase = "mixed"
    /\ nIns = 4
    /\ nPop = 2
    /\ Len(fel) = 2
    /\ ret.id = 1
    /\ fel[1].id = 3

\* C32: events with equal time and equal kind are returned by get_next in
\* the order in which they were inserted, for any sequence of inserts
\* followed by pops: no event left in the list has the time and kind of the
\* one just returned and was inserted before it.
C32_EqualEventsPopInInsertionOrder ==
    phase = "drain" =>
        \A i, j \in DOMAIN popped :
            (i < j /\ SameTimeKind(popped[i], popped[j]))
                => popped[i].id < popped[j].id

\* C32 as it holds: events with equal time and equal kind are each returned
\* by get_next exactly once, in an order that need not be the order in
\* which they were inserted, for any sequence of inserts followed by pops:
\* what was returned and what is still in the list are together what was
\* inserted, each event once, and when None comes back all was returned.
C32_EqualEventsPopOnceEach ==
    phase = "drain" =>
        /\ SameEvents(popped \o fel, inserted)
        /\ \A i, j \in DOMAIN popped : i # j => popped[i] # popped[j]
        /\ (lastOp = "get_next" /\ ret = None) => SameEvents(popped, inserted)

C32_Witness ==
    /\ phase = "drain"
    /\ lastOp = "get_next"
    /\ ret = None
    /\ Len(popped) = 4
    /\ \A i \in 1..3 : SameTimeKind(popped[i], popped[4])
    /\ popped[3].id > popped[4].id

\* C33: at every dispatch in every driver, the first dispatch after seeding
\* included, the elapsed duration current_event.time - previous_event.time
\* used for the busy-time statistics is >= 0: the event a loop iteration
\* pops is not earlier than previous_event.
C33_ElapsedDurationNonNegative ==
    [][(pc = "Loop" /\ nPop' = nPop + 1)
          => At(fel, 0).time >= previous_event.time]_vars

\* How many events of a kind, and of an entity, are pending in the FEL.
Pending(type, entity) ==
    Cardinality({i \in DOMAIN fel : fel[i].type = type /\ fel[i].entity = entity})

\* C34: at the head of every loop iteration of grocery_checkout and
\* airport_check_in, each server is BUSY if and only if exactly one
\* Departure for that server is pending in the FEL (and none is pending
\* when it is IDLE), and exactly one Arrival per arrival stream is pending.
C34_OneDeparturePerBusyServerOneArrivalPerStream ==
    /\ (driver = "grocery_checkout" /\ pc = "Loop" /\ grocery_loop_condition) =>
           /\ Pending(DEPARTURE, NoEntity) = (IF server = BUSY THEN 1 ELSE 0)
           /\ Pending(ARRIVAL, NoEntity) = 1
    /\ (driver = "airport_check_in" /\ pc = "Loop" /\ loop_condition) =>
           \A flight_class \in FlightClasses :
               /\ Pending(DEPARTURE, flight_class) =
                      (IF states[flight_class].server_status = BUSY THEN 1 ELSE 0)
               /\ Pending(ARRIVAL, flight_class) = 1

C34_Witness ==
    /\ driver = "airport_check_in"
    /\ pc = "Loop"
    /\ loop_condition
    /\ transfer_count = 1
    /\ states[FIRST_CLASS].server_status = BUSY
    /\ states[ECONOMY_CLASS].server_status = BUSY
    /\ previous_event.type = DEPARTURE

\* C35: in grocery_checkout, customers waiting in the queue start service
\* in the order they arrived: when a Departure frees the server, the
\* customer taken from the queue, the one whose Departure is inserted, is
\* one with the earliest arrival time among those waiting.
C35_QueueIsFirstComeFirstServed ==
    [][(driver = "grocery_checkout" /\ pc = "Loop" /\ Len(queue') < Len(queue))
          => \E i \in DOMAIN queue :
                 /\ queue[i][1] = inserted'[1].id
                 /\ \A j \in DOMAIN queue : queue[i][2] <= queue[j][2]]_vars

\* C36: in airport_check_in, for each flight class and in both transfer
\* scenarios, statistics[class]['current_queue_length'] equals the number
\* of entries in states[class]['queue'] at the end of every loop iteration.
C36_QueueLengthCounterMatchesQueue ==
    (driver = "airport_check_in" /\ pc = "Loop" /\ nPop >= 1) =>
        \A flight_class \in FlightClasses :
            statistics[flight_class].current_queue_length =
                Len(states[flight_class].queue)

\* C37: in airport_check_in, a flight class's cumulative_time_busy increases
\* in an iteration only if that same class's server_status was BUSY during
\* the elapsed interval, and it never exceeds the clock.
C37_BusyTimeOnlyWhileOwnServerBusy ==
    /\ [][(driver = "airport_check_in" /\ pc = "Loop" /\ nPop' = nPop + 1) =>
              \A flight_class \in FlightClasses :
                  statistics'[flight_class].cumulative_time_busy
                          > statistics[flight_class].cumulative_time_busy
                      => states[flight_class].server_status = BUSY]_vars
    /\ [](driver = "airport_check_in" =>
              \A flight_class \in FlightClasses :
                  statistics[flight_class].cumulative_time_busy <= clock)

\* C38: in dump_truck_operation, after every dispatched event the state
\* satisfies 0 <= L <= 2, W in {0, 1}, LQ >= 0, WQ >= 0,
\* LQ + L + WQ + W <= truck_count, LQ > 0 implies L = 2, and WQ > 0 implies
\* W = 1.
C38_TruckStateWithinBounds ==
    (driver = "dump_truck_operation" /\ pc # "Start" /\ nPop >= 1) =>
        /\ 0 <= state.L /\ state.L <= Loaders
        /\ state.W \in {0, 1}
        /\ state.LQ >= 0
        /\ state.WQ >= 0
        /\ state.LQ + state.L + state.WQ + state.W <= truck_count
        /\ state.LQ > 0 => state.L = Loaders
        /\ state.WQ > 0 => state.W = 1

C38_Witness ==
    /\ driver = "dump_truck_operation"
    /\ pc = "Loop"
    /\ state.LQ = 1
    /\ state.L = Loaders
    /\ previous_event.type = ALQ
    /\ previous_event.id = truck_count

\* How often a truck is in a queue, or pending in the FEL as an event of
\* one of the given kinds.
TruckInQueue(seq, id) == Cardinality({i \in DOMAIN seq : seq[i] = id})

TruckPending(types, id) ==
    Cardinality({i \in DOMAIN fel : fel[i].type \in types /\ fel[i].id = id})

\* C39: in dump_truck_operation, trucks are conserved: at the head of every
\* loop iteration each truck id 1..truck_count appears exactly once among
\* the pending ALQ/EL/EW events in the FEL, the loader queue and the
\* weighing queue; the number of pending EL events equals L and the number
\* of pending EW events equals W.
C39_TrucksConserved ==
    (driver = "dump_truck_operation" /\ pc = "Loop") =>
        /\ \A id \in 1..truck_count :
               TruckPending({ALQ, EL, EW}, id) + TruckInQueue(queue.L, id)
                   + TruckInQueue(queue.W, id) = 1
        /\ Cardinality({i \in DOMAIN fel : fel[i].type = EL}) = state.L
        /\ Cardinality({i \in DOMAIN fel : fel[i].type = EW}) = state.W

C39_Witness ==
    /\ driver = "dump_truck_operation"
    /\ pc = "Loop"
    /\ Len(queue.W) = 1
    /\ state.W = 1
    /\ \E id \in 1 .. truck_count : TruckPending({EW}, id) = 1
    /\ previous_event.type = EL

====
